---- MODULE Spec2Model ----
(***************************************************************************)
(* Model of the resilience layer of the AfriOne Hedera services:           *)
(*   - executeWithRetry      (utils/error-handler.ts)                      *)
(*   - monitorTransaction    (utils/transaction-monitor.ts)                *)
(*   - HederaFileService.createFile (services/hedera/file.service.ts)      *)
(*   - HederaSmartContractService.deployLargeContract                      *)
(*                           (services/hedera/smart-contract.service.ts)   *)
(* One behaviour of the model is one top-level call (variable `call`).     *)
(* Every await of the code is a step boundary: a network call is issued in *)
(* one step and settles (resolves or rejects) in a later one.              *)
(***************************************************************************)
EXTENDS Integers, Sequences, FiniteSets, TLC

(* ------------------------------ bounds --------------------------------- *)
\* largest maxRetries argument passed to a direct executeWithRetry call
MaxRetriesBound == 4
\* payloads span at most this many segments
MaxChunks == 3
\* byte-level splitting: payloads of at most this many bytes ...
MaxPayloadLen == 4
\* ... cut into segments of at most this many bytes
MaxSegment == 3
\* calculateDailyCosts: every count triple up to this value is tried
MaxCount == 4
\* mintTokenSupply: every amount from 1 up to this value is tried
MaxAmount == 2

(* ------------------------- program constants --------------------------- *)
\* error-handler.ts: maxRetries: number = 3
DefaultMaxRetries == 3
\* error-handler.ts: Math.pow(2, attempt) * 1000
BackoffBaseMs == 1000
\* transaction-monitor.ts: for (let i = 0; i < 10; i++)
maxPolls == 10
\* transaction-monitor.ts: setTimeout(resolve, 2000)
pollIntervalMs == 2000
\* file.service.ts: const chunkSize = 6144
chunkSize == 6144
\* smart-contract.service.ts: bytecode.slice(0, 4096), offset += 4096
bytecodeChunk == 4096

VARIABLES
  call,          \* the top-level function this behaviour runs
  \* --- executeWithRetry ---
  maxRetries,    \* parameter
  attempt,       \* loop variable
  pc,            \* "idle" | "loop" | "op" | "sleep" | "returned" | "thrown"
  delays,        \* the delays (ms) passed to setTimeout so far
  outcome,       \* what the caller of executeWithRetry gets
  invocations,   \* number of times operation() was called
  opsInFlight,   \* number of operation() promises not yet settled
  trace,         \* history of executor events <<event, attempt>>
  \* --- the wrapped operation (closure locals) ---
  bpc,           \* position inside the operation body
  contentsLen,   \* contents.length / bytecode.length
  chunks,        \* createFile: the chunks array, as byte ranges <<lo, hi>>
  i,             \* createFile: loop index of the append loop
  offset,        \* deployLargeContract: offset of the append loop
  fileId,        \* fileCreateReceipt.fileId of the current invocation (0: none)
  \* --- network and external collaborators ---
  calls,         \* every create/append/contract call issued, in issue order
  netInFlight,   \* number of issued calls whose promise has not settled
  files,         \* files[id]: the byte ranges the network file id holds
  metadata,      \* fileIds handed to storeFileMetadata
  contracts,     \* bytecode file ids of the contracts created
  \* --- monitorTransaction ---
  monPc,         \* "idle" | "loop" | "fetch" | "sleep" | "done"
  poll,          \* loop variable i of monitorTransaction
  reads,         \* number of fetch calls issued
  sleeps,        \* number of 2000 ms sleeps completed
  lastRead,      \* outcome of the latest read
  notFound,      \* number of reads that did not yield a confirmed record
  monState,      \* ConfirmationState of the spec: Submitted/NotFoundYet/Confirmed/TimedOut
  monRet,        \* what monitorTransaction's promise delivers to its caller
  warned,        \* the time-out warning of line 23 was logged
  \* --- byte-level splitting ---
  payload,       \* the bytes of contents / bytecode
  segment,       \* the segment size the loop steps by
  byteChunks,    \* the slices produced so far, as byte sequences
  \* --- the caller's side ---
  cancelled,     \* the caller has raised its cancellation signal
  deadline,      \* the caller's overall deadline in ms (0: none)
  \* --- HederaConsensusService ---
  hcsKey,        \* process.env.HCS_ENCRYPTION_KEY: "missing" | "valid" | "invalid"
  topicSet,      \* this.topicIds.<topic of the logger called> is not null
  input,         \* the identity-bearing properties of the logger's argument
  logEntry,      \* the `message` argument of submitMessage
  encrypt,       \* the `encrypt` argument of submitMessage
  submitted,     \* every message handed to submitTx.execute, in issue order
  ivs,           \* the values crypto.randomBytes(16) returned, in call order
  \* --- calculateDailyCosts ---
  htsCount,      \* parameter
  hcsCount,      \* parameter
  hscsCount,     \* parameter
  costs,         \* the CostTracker the promise resolves with
  \* --- two createFile calls running at once ---
  ups,           \* ups[u]: the executor and closure state of upload u
  store,         \* store[id]: the network file id, who created it, its contents
  \* --- an outer executeWithRetry around a service call that retries itself ---
  oPc,           \* outer executor: "idle" | "loop" | "op" | "sleep" | "returned" | "thrown"
  oAttempt,      \* outer executor: loop variable attempt
  oOutcome,      \* what the caller of the outer function gets
  phase,         \* the await the outer operation is at
  txIssued,      \* execute calls of the contract / mint transaction issued
  txApplied,     \* of those, the ones the network has applied
  amount,        \* mintTokenSupply: parameter amount
  recipient      \* mintTokenSupply: recipientAccountId is given

retryVars == <<maxRetries, attempt, pc, delays, outcome, invocations, opsInFlight, trace>>
bodyVars  == <<bpc, contentsLen, chunks, i, offset, fileId>>
netVars   == <<calls, netInFlight, files, metadata, contracts>>
monVars   == <<monPc, poll, reads, sleeps, lastRead, notFound, monState, monRet,
               warned>>
splitVars == <<payload, segment, byteChunks>>
envVars   == <<cancelled, deadline>>
hcsVars   == <<hcsKey, topicSet, input, logEntry, encrypt, submitted, ivs>>
costVars  == <<htsCount, hcsCount, hscsCount, costs>>
upVars    == <<ups, store>>
outerVars == <<oPc, oAttempt, oOutcome, phase, txIssued, txApplied, amount, recipient>>
vars      == <<call, retryVars, bodyVars, netVars, monVars, splitVars, envVars,
               hcsVars, costVars, upVars, outerVars>>

(* ------------------------------ helpers -------------------------------- *)
RECURSIVE Pow2(_)
Pow2(n) == IF n <= 0 THEN 1 ELSE 2 * Pow2(n - 1)

Min(a, b) == IF a <= b THEN a ELSE b

NoOutcome == [kind |-> "none", by |-> 0, src |-> "none", file |-> 0]

\* the Error object a failing step of the current invocation throws
ErrorOf(src) == [kind |-> "error", by |-> invocations, src |-> src, file |-> 0]

\* the value the current invocation of the operation resolves with
\* (file: the fileId field of a FileOperationResult, 0 when there is none)
ValueOf(src, f) == [kind |-> "value", by |-> invocations, src |-> src, file |-> f]

\* What a caller can read off a thrown error besides its message: the errors
\* are the SDK's rejections and `new Error(message)` objects, rethrown by
\* `throw error` as they are; no class and no property of them names a kind.
ErrorKind(e) == "Error"

\* new Error('Max retries exceeded')
MaxRetriesExceeded ==
  [kind |-> "generic", by |-> 0, src |-> "executeWithRetry", file |-> 0]

(* ======================= executeWithRetry ============================== *)
\* faulty variant: exponent off by one (1000, 2000, 4000, ...)
BackoffDelayOffByOne(k) == Pow2(k - 1) * BackoffBaseMs

\* const delay = Math.pow(2, attempt) * 1000
BackoffDelay(k) == Pow2(k) * BackoffBaseMs

\* faulty variant: a do-while loop, which runs its body once before the test
RetryInvokeAtLeastOnce ==
  /\ pc = "loop"
  /\ attempt <= maxRetries \/ invocations = 0
  /\ pc' = "op"
  /\ invocations' = invocations + 1
  /\ opsInFlight' = opsInFlight + 1
  /\ trace' = Append(trace, <<"invoke", attempt>>)
  /\ bpc' = "entry"
  /\ UNCHANGED <<maxRetries, attempt, delays, outcome>>
  /\ UNCHANGED <<call, envVars, outerVars, upVars, costVars, hcsVars, splitVars, contentsLen, chunks, i, offset, fileId, netVars, monVars>>

\* for-loop test `attempt <= maxRetries` is true: `await operation()` calls
\* the operation
RetryInvoke ==
  /\ pc = "loop"
  /\ attempt <= maxRetries
  /\ pc' = "op"
  /\ invocations' = invocations + 1
  /\ opsInFlight' = opsInFlight + 1
  /\ trace' = Append(trace, <<"invoke", attempt>>)
  /\ bpc' = "entry"
  /\ UNCHANGED <<maxRetries, attempt, delays, outcome>>
  /\ UNCHANGED <<call, envVars, outerVars, upVars, costVars, hcsVars, splitVars, contentsLen, chunks, i, offset, fileId, netVars, monVars>>

\* for-loop test is false: fall through to throw new Error('Max retries exceeded')
RetryExhausted ==
  /\ pc = "loop"
  /\ ~(attempt <= maxRetries)
  /\ pc' = "thrown"
  /\ outcome' = MaxRetriesExceeded
  /\ UNCHANGED <<maxRetries, attempt, delays, invocations, opsInFlight, trace>>
  /\ UNCHANGED <<call, envVars, outerVars, upVars, costVars, hcsVars, splitVars, bodyVars, netVars, monVars>>

\* faulty variant: `await operation()` without `return`: the loop goes on
RetryResolveNoReturn(v) ==
  /\ pc' = "loop"
  /\ attempt' = attempt + 1
  /\ opsInFlight' = opsInFlight - 1
  /\ trace' = Append(trace, <<"ok", attempt>>)
  /\ UNCHANGED <<maxRetries, delays, outcome, invocations>>

\* `return await operation()` when the operation resolves with value v
RetryResolve(v) ==
  /\ pc' = "returned"
  /\ outcome' = v
  /\ opsInFlight' = opsInFlight - 1
  /\ trace' = Append(trace, <<"ok", attempt>>)
  /\ UNCHANGED <<maxRetries, attempt, delays, invocations>>

\* faulty variant: the last attempt's error is dropped, the loop falls through to
\* the generic error
RetryCatchGeneric(error) ==
  /\ opsInFlight' = opsInFlight - 1
  /\ IF attempt = maxRetries
       THEN /\ pc' = "thrown"
            /\ outcome' = MaxRetriesExceeded
            /\ trace' = Append(trace, <<"fail", attempt>>)
            /\ UNCHANGED delays
       ELSE /\ pc' = "sleep"
            /\ delays' = Append(delays, BackoffDelay(attempt))
            /\ trace' = trace \o <<(<<"fail", attempt>>), (<<"sleepStart", attempt>>)>>
            /\ UNCHANGED outcome
  /\ UNCHANGED <<maxRetries, attempt, invocations>>

\* faulty variant: the setTimeout promise is not awaited, the next attempt starts
\* at once
RetryCatchNoAwait(error) ==
  /\ opsInFlight' = opsInFlight - 1
  /\ IF attempt = maxRetries
       THEN /\ pc' = "thrown"
            /\ outcome' = error
            /\ trace' = Append(trace, <<"fail", attempt>>)
            /\ UNCHANGED <<delays, attempt>>
       ELSE /\ pc' = "loop"
            /\ attempt' = attempt + 1
            /\ delays' = Append(delays, BackoffDelay(attempt))
            /\ trace' = trace \o <<(<<"fail", attempt>>), (<<"sleepStart", attempt>>)>>
            /\ UNCHANGED outcome
  /\ UNCHANGED <<maxRetries, invocations>>

\* the catch block, entered when the operation rejects with `error`
RetryCatch(error) ==
  /\ opsInFlight' = opsInFlight - 1
  /\ IF attempt = maxRetries
       THEN /\ pc' = "thrown"
            /\ outcome' = error
            /\ trace' = Append(trace, <<"fail", attempt>>)
            /\ UNCHANGED delays
       ELSE /\ pc' = "sleep"
            /\ delays' = Append(delays, BackoffDelay(attempt))
            /\ trace' = trace \o <<(<<"fail", attempt>>), (<<"sleepStart", attempt>>)>>
            /\ UNCHANGED outcome
  /\ UNCHANGED <<maxRetries, attempt, invocations>>

\* the setTimeout of the catch block fires; the loop's attempt++ runs
RetrySleepDone ==
  /\ pc = "sleep"
  /\ pc' = "loop"
  /\ attempt' = attempt + 1
  /\ trace' = Append(trace, <<"sleepEnd", attempt>>)
  /\ UNCHANGED <<maxRetries, delays, outcome, invocations, opsInFlight>>
  /\ UNCHANGED <<call, envVars, outerVars, upVars, costVars, hcsVars, splitVars, bodyVars, netVars, monVars>>

(* --- an arbitrary operation passed directly to executeWithRetry --- *)
OperationResolve ==
  /\ call = "executeWithRetry"
  /\ pc = "op" /\ bpc = "entry"
  /\ RetryResolve(ValueOf("operation", 0))
  /\ bpc' = "idle"
  /\ UNCHANGED <<call, envVars, outerVars, upVars, costVars, hcsVars, splitVars, contentsLen, chunks, i, offset, fileId, netVars, monVars>>

OperationReject ==
  /\ call = "executeWithRetry"
  /\ pc = "op" /\ bpc = "entry"
  /\ RetryCatch(ErrorOf("operation"))
  /\ bpc' = "idle"
  /\ UNCHANGED <<call, envVars, outerVars, upVars, costVars, hcsVars, splitVars, contentsLen, chunks, i, offset, fileId, netVars, monVars>>

(* ======================= monitorTransaction ============================ *)
\* what one read of the mirror node can yield
ReadOutcomes ==
  {"fetchThrows", "notOk", "jsonThrows", "noTransactions", "emptyTransactions",
   "noTimestamp", "missingTimestamp", "confirmed"}

\* a consensus_timestamp of the mirror node, and JSON null / a missing property
Timestamp == "1700000000.000000001"
JsonNull == "<null>"
Missing == "<undefined>"

\* The read each outcome stands for: whether fetch resolved, response.ok,
\* whether response.json() resolved, whether data.transactions is there, and
\* the consensus_timestamp of each of its elements.
ResponseOf(r) ==
  CASE r = "fetchThrows" ->
         [fetched |-> FALSE, ok |-> FALSE, parsed |-> FALSE, present |-> FALSE,
          timestamps |-> <<>>]
    [] r = "notOk" ->
         [fetched |-> TRUE, ok |-> FALSE, parsed |-> TRUE, present |-> TRUE,
          timestamps |-> <<Timestamp>>]
    [] r = "jsonThrows" ->
         [fetched |-> TRUE, ok |-> TRUE, parsed |-> FALSE, present |-> FALSE,
          timestamps |-> <<>>]
    [] r = "noTransactions" ->
         [fetched |-> TRUE, ok |-> TRUE, parsed |-> TRUE, present |-> FALSE,
          timestamps |-> <<>>]
    [] r = "emptyTransactions" ->
         [fetched |-> TRUE, ok |-> TRUE, parsed |-> TRUE, present |-> TRUE,
          timestamps |-> <<>>]
    [] r = "noTimestamp" ->
         [fetched |-> TRUE, ok |-> TRUE, parsed |-> TRUE, present |-> TRUE,
          timestamps |-> <<JsonNull, Timestamp>>]
    [] r = "missingTimestamp" ->
         [fetched |-> TRUE, ok |-> TRUE, parsed |-> TRUE, present |-> TRUE,
          timestamps |-> <<Missing>>]
    [] r = "confirmed" ->
         [fetched |-> TRUE, ok |-> TRUE, parsed |-> TRUE, present |-> TRUE,
          timestamps |-> <<Timestamp, JsonNull>>]

\* the truth value JavaScript gives a consensus_timestamp in a condition
TruthyTimestamp(t) == t \notin {JsonNull, Missing, ""}

\* faulty variant: response.ok is not tested
IsConfirmedAnyStatus(r) ==
  LET resp == ResponseOf(r)
  IN /\ resp.fetched
     /\ resp.parsed
     /\ resp.present
     /\ Len(resp.timestamps) > 0
     /\ TruthyTimestamp(resp.timestamps[1])

\* the read resolved, response.ok, the body parsed, and
\* data.transactions && data.transactions.length > 0
\*   && data.transactions[0].consensus_timestamp
IsConfirmed(r) ==
  LET resp == ResponseOf(r)
  IN /\ resp.fetched
     /\ resp.ok
     /\ resp.parsed
     /\ resp.present
     /\ Len(resp.timestamps) > 0
     /\ TruthyTimestamp(resp.timestamps[1])

\* `return;` inside the loop (line 13): the promise resolves with undefined
ReturnAtConfirmed == "undefined"

\* end of the function body after console.warn (line 24): the promise
\* resolves with undefined
ReturnAtTimeout == "undefined"

\* the caller of monitorTransaction is at its `await monitorTransaction(...)`
MonitorActive == call = "monitorTransaction" \/ (pc = "op" /\ bpc = "monitor")

\* loop test i < 10 is true: fetch(...) is issued
MonitorFetch ==
  /\ MonitorActive
  /\ monPc = "loop"
  /\ poll < maxPolls
  /\ monPc' = "fetch"
  /\ reads' = reads + 1
  /\ UNCHANGED <<poll, sleeps, lastRead, notFound, monState, monRet, warned>>
  /\ UNCHANGED <<call, envVars, outerVars, upVars, costVars, hcsVars, splitVars, retryVars, bodyVars, netVars>>

\* faulty variant: the `return` of the confirmed branch is missing
MonitorResponseNoReturn(r) ==
  /\ MonitorActive
  /\ monPc = "fetch"
  /\ lastRead' = r
  /\ monPc' = "sleep"
  /\ monState' = IF IsConfirmed(r) THEN "Confirmed" ELSE "NotFoundYet"
  /\ notFound' = IF IsConfirmed(r) THEN notFound ELSE notFound + 1
  /\ UNCHANGED <<poll, reads, sleeps, warned, monRet>>
  /\ UNCHANGED <<call, envVars, outerVars, upVars, costVars, hcsVars, splitVars, retryVars, bodyVars, netVars>>

\* faulty variant: an error thrown by fetch or response.json() is not caught
MonitorResponseRethrows(r) ==
  /\ MonitorActive
  /\ monPc = "fetch"
  /\ lastRead' = r
  /\ IF IsConfirmed(r)
       THEN /\ monPc' = "done"
            /\ monState' = "Confirmed"
            /\ monRet' = ReturnAtConfirmed
            /\ UNCHANGED notFound
       ELSE IF r \in {"fetchThrows", "jsonThrows"}
       THEN /\ monPc' = "done"
            /\ monState' = "NotFoundYet"
            /\ monRet' = "Error"
            /\ notFound' = notFound + 1
       ELSE /\ monPc' = "sleep"
            /\ monState' = "NotFoundYet"
            /\ notFound' = notFound + 1
            /\ UNCHANGED monRet
  /\ UNCHANGED <<poll, reads, sleeps, warned>>
  /\ UNCHANGED <<call, envVars, outerVars, upVars, costVars, hcsVars, splitVars, retryVars, bodyVars, netVars>>

\* the read settles with outcome r: either `return` (confirmed) or fall to
\* the setTimeout after the try/catch
MonitorResponse(r) ==
  /\ MonitorActive
  /\ monPc = "fetch"
  /\ lastRead' = r
  /\ IF IsConfirmed(r)
       THEN /\ monPc' = "done"
            /\ monState' = "Confirmed"
            /\ monRet' = ReturnAtConfirmed
            /\ UNCHANGED notFound
       ELSE /\ monPc' = "sleep"
            /\ monState' = "NotFoundYet"
            /\ notFound' = notFound + 1
            /\ UNCHANGED monRet
  /\ UNCHANGED <<poll, reads, sleeps, warned>>
  /\ UNCHANGED <<call, envVars, outerVars, upVars, costVars, hcsVars, splitVars, retryVars, bodyVars, netVars>>

\* faulty variant: the promise of the wait is never resolved
MonitorSleepNeverResolves ==
  /\ MonitorActive
  /\ monPc = "sleep"
  /\ UNCHANGED vars

\* setTimeout(resolve, 2000) fires; i++
MonitorSleepDone ==
  /\ MonitorActive
  /\ monPc = "sleep"
  /\ monPc' = "loop"
  /\ poll' = poll + 1
  /\ sleeps' = sleeps + 1
  /\ UNCHANGED <<reads, lastRead, notFound, monState, monRet, warned>>
  /\ UNCHANGED <<call, envVars, outerVars, upVars, costVars, hcsVars, splitVars, retryVars, bodyVars, netVars>>

\* faulty variant: the time-out is raised as an error instead of being logged
MonitorGiveUpThrows ==
  /\ MonitorActive
  /\ monPc = "loop"
  /\ ~(poll < maxPolls)
  /\ monPc' = "done"
  /\ monState' = "TimedOut"
  /\ monRet' = "Error"
  /\ UNCHANGED <<poll, reads, sleeps, lastRead, notFound, warned>>
  /\ UNCHANGED <<call, envVars, outerVars, upVars, costVars, hcsVars, splitVars, retryVars, bodyVars, netVars>>

\* loop test i < 10 is false: console.warn(...) and the function ends
MonitorGiveUp ==
  /\ MonitorActive
  /\ monPc = "loop"
  /\ ~(poll < maxPolls)
  /\ monPc' = "done"
  /\ monState' = "TimedOut"
  /\ warned' = TRUE
  /\ monRet' = ReturnAtTimeout
  /\ UNCHANGED <<poll, reads, sleeps, lastRead, notFound>>
  /\ UNCHANGED <<call, envVars, outerVars, upVars, costVars, hcsVars, splitVars, retryVars, bodyVars, netVars>>

\* entry of monitorTransaction: `let i = 0`
MonitorEnter ==
  /\ monPc' = "loop"
  /\ poll' = 0
  /\ reads' = 0
  /\ sleeps' = 0
  /\ lastRead' = "none"
  /\ notFound' = 0
  /\ monState' = "Submitted"
  /\ monRet' = "pending"
  /\ warned' = FALSE


(* ==================== HederaFileService.createFile ===================== *)
\* for (let i = 0; i < contents.length; i += chunkSize)
\*   chunks.push(contents.slice(i, i + chunkSize))
\* a chunk is the byte range <<lo, hi>> (hi exclusive) of contents it holds
RECURSIVE SplitFrom(_, _, _)
SplitFrom(lo, len, n) ==
  IF lo < len THEN <<(<<lo, Min(lo + n, len)>>)>> \o SplitFrom(lo + n, len, n)
              ELSE <<>>

Split(len, n) == SplitFrom(0, len, n)

\* a call handed to the network: FileCreateTransaction, FileAppendTransaction
\* or ContractCreateTransaction .execute(client)
\* status: "pending" until the promise settles, then "submitted" (a create
\* whose receipt is awaited), "ok" or "failed"; file: the FileId the call
\* targets, for a create the FileId its receipt produced (0: none)
NetCall(op, range, index, target) ==
  [op |-> op, range |-> range, index |-> index, file |-> target,
   attempt |-> attempt, status |-> "pending"]

\* history: the latest call settles with status st (and FileId f)
Settle(st, f) ==
  [calls EXCEPT ![Len(calls)] = [@ EXCEPT !.status = st, !.file = f]]

\* the operation starts: split the contents, build the FileCreateTransaction
\* with chunks[0] and call execute
CreateFileBegin ==
  /\ call = "createFile"
  /\ pc = "op" /\ bpc = "entry"
  /\ chunks' = Split(contentsLen, chunkSize)
  /\ calls' = Append(calls, NetCall("create", chunks'[1], 0, 0))
  /\ netInFlight' = netInFlight + 1
  /\ i' = 0 /\ offset' = 0 /\ fileId' = 0
  /\ bpc' = "createExec"
  /\ UNCHANGED <<call, envVars, outerVars, upVars, costVars, hcsVars, splitVars, retryVars, contentsLen, files, metadata, contracts, monVars>>

\* fileCreateTx.execute(client) resolves
CreateFileCreateOk ==
  /\ call = "createFile"
  /\ pc = "op" /\ bpc = "createExec"
  /\ calls' = Settle("submitted", 0)
  /\ netInFlight' = netInFlight - 1
  /\ bpc' = "receipt"
  /\ UNCHANGED <<call, envVars, outerVars, upVars, costVars, hcsVars, splitVars, retryVars, contentsLen, chunks, i, offset, fileId>>
  /\ UNCHANGED <<files, metadata, contracts, monVars>>

\* faulty variant: the rejection of the create is swallowed and the appends go on
CreateFileCreateFailIgnored ==
  /\ call = "createFile"
  /\ pc = "op" /\ bpc = "createExec"
  /\ calls' = Settle("failed", 0)
  /\ netInFlight' = netInFlight - 1
  /\ i' = 1
  /\ bpc' = "appendLoop"
  /\ UNCHANGED <<call, envVars, outerVars, upVars, costVars, hcsVars, splitVars, retryVars, contentsLen, chunks, offset, fileId>>
  /\ UNCHANGED <<files, metadata, contracts, monVars>>

\* fileCreateTx.execute(client) rejects
CreateFileCreateFail ==
  /\ call = "createFile"
  /\ pc = "op" /\ bpc = "createExec"
  /\ calls' = Settle("failed", 0)
  /\ netInFlight' = netInFlight - 1
  /\ RetryCatch(ErrorOf("create"))
  /\ bpc' = "idle"
  /\ UNCHANGED <<call, envVars, outerVars, upVars, costVars, hcsVars, splitVars, contentsLen, chunks, i, offset, fileId>>
  /\ UNCHANGED <<files, metadata, contracts, monVars>>

\* getReceipt resolves: the file exists and holds chunks[0]; the for loop of
\* the appends starts with i = 1
CreateFileReceiptOk ==
  /\ call = "createFile"
  /\ pc = "op" /\ bpc = "receipt"
  /\ calls' = Settle("ok", Len(files) + 1)
  /\ files' = Append(files, <<chunks[1]>>)
  /\ fileId' = Len(files) + 1
  /\ i' = 1
  /\ bpc' = "appendLoop"
  /\ UNCHANGED <<call, envVars, outerVars, upVars, costVars, hcsVars, splitVars, retryVars, contentsLen, chunks, offset>>
  /\ UNCHANGED <<netInFlight, metadata, contracts, monVars>>

\* getReceipt rejects (the file may or may not exist on the network; its
\* FileId never reaches the code)
CreateFileReceiptFail ==
  /\ call = "createFile"
  /\ pc = "op" /\ bpc = "receipt"
  /\ calls' = Settle("failed", 0)
  /\ \E created \in BOOLEAN :
       files' = IF created THEN Append(files, <<chunks[1]>>) ELSE files
  /\ RetryCatch(ErrorOf("createReceipt"))
  /\ bpc' = "idle"
  /\ UNCHANGED <<call, envVars, outerVars, upVars, costVars, hcsVars, splitVars, contentsLen, chunks, i, offset, fileId, netInFlight, metadata, contracts, monVars>>

\* loop test i < chunks.length is true: appendTx.execute(client) is called
\* with setFileId(fileId), setContents(chunks[i])
CreateFileAppendIssue ==
  /\ call = "createFile"
  /\ pc = "op" /\ bpc = "appendLoop"
  /\ i < Len(chunks)
  /\ calls' = Append(calls, NetCall("append", chunks[i + 1], i, fileId))
  /\ netInFlight' = netInFlight + 1
  /\ bpc' = "appendExec"
  /\ UNCHANGED <<call, envVars, outerVars, upVars, costVars, hcsVars, splitVars, retryVars, contentsLen, chunks, i, offset, fileId>>
  /\ UNCHANGED <<files, metadata, contracts, monVars>>

\* faulty variant: the loop index advances by two, a chunk is skipped
CreateFileAppendOkSkip ==
  /\ call = "createFile"
  /\ pc = "op" /\ bpc = "appendExec"
  /\ calls' = Settle("ok", fileId)
  /\ netInFlight' = netInFlight - 1
  /\ files' = [files EXCEPT ![fileId] = Append(@, chunks[i + 1])]
  /\ i' = i + 2
  /\ bpc' = "appendLoop"
  /\ UNCHANGED <<call, envVars, outerVars, upVars, costVars, hcsVars, splitVars, retryVars, contentsLen, chunks, offset, fileId>>
  /\ UNCHANGED <<metadata, contracts, monVars>>

\* the append resolves; i++
CreateFileAppendOk ==
  /\ call = "createFile"
  /\ pc = "op" /\ bpc = "appendExec"
  /\ calls' = Settle("ok", fileId)
  /\ netInFlight' = netInFlight - 1
  /\ files' = [files EXCEPT ![fileId] = Append(@, chunks[i + 1])]
  /\ i' = i + 1
  /\ bpc' = "appendLoop"
  /\ UNCHANGED <<call, envVars, outerVars, upVars, costVars, hcsVars, splitVars, retryVars, contentsLen, chunks, offset, fileId>>
  /\ UNCHANGED <<metadata, contracts, monVars>>

\* the append rejects: the error leaves the operation (the network may or
\* may not have applied the append before the call failed)
CreateFileAppendFail ==
  /\ call = "createFile"
  /\ pc = "op" /\ bpc = "appendExec"
  /\ calls' = Settle("failed", fileId)
  /\ netInFlight' = netInFlight - 1
  /\ \E applied \in BOOLEAN :
       files' = IF applied THEN [files EXCEPT ![fileId] = Append(@, chunks[i + 1])]
                           ELSE files
  /\ RetryCatch(ErrorOf("append"))
  /\ bpc' = "idle"
  /\ UNCHANGED <<call, envVars, outerVars, upVars, costVars, hcsVars, splitVars, contentsLen, chunks, i, offset, fileId>>
  /\ UNCHANGED <<metadata, contracts, monVars>>

\* faulty variant: the append loop stops one chunk early
CreateFileStoreEarly ==
  /\ call = "createFile"
  /\ pc = "op" /\ bpc = "appendLoop"
  /\ ~(i < Len(chunks) - 1)
  /\ metadata' = metadata \cup {fileId}
  /\ bpc' = "stored"
  /\ UNCHANGED <<call, envVars, outerVars, upVars, costVars, hcsVars, splitVars, retryVars, contentsLen, chunks, i, offset, fileId>>
  /\ UNCHANGED <<calls, netInFlight, files, contracts, monVars>>

\* loop test is false: await this.storeFileMetadata({fileId, ...})
CreateFileStore ==
  /\ call = "createFile"
  /\ pc = "op" /\ bpc = "appendLoop"
  /\ ~(i < Len(chunks))
  /\ metadata' = metadata \cup {fileId}
  /\ bpc' = "stored"
  /\ UNCHANGED <<call, envVars, outerVars, upVars, costVars, hcsVars, splitVars, retryVars, contentsLen, chunks, i, offset, fileId>>
  /\ UNCHANGED <<calls, netInFlight, files, contracts, monVars>>

\* faulty variant: polling starts when the append loop ends, before the
\* metadata is stored
CreateFileMonitorUnstored ==
  /\ call = "createFile"
  /\ pc = "op" /\ bpc = "appendLoop"
  /\ ~(i < Len(chunks))
  /\ MonitorEnter
  /\ bpc' = "monitor"
  /\ UNCHANGED <<call, envVars, outerVars, upVars, costVars, hcsVars, splitVars, retryVars, contentsLen, chunks, i, offset, fileId, netVars>>

\* await monitorTransaction(fileCreateSubmit.transactionId.toString())
CreateFileMonitor ==
  /\ call = "createFile"
  /\ pc = "op" /\ bpc = "stored"
  /\ MonitorEnter
  /\ bpc' = "monitor"
  /\ UNCHANGED <<call, envVars, outerVars, upVars, costVars, hcsVars, splitVars, retryVars, contentsLen, chunks, i, offset, fileId, netVars>>

\* monitorTransaction has returned: return {success: true, fileId, ...}
CreateFileReturn ==
  /\ call = "createFile"
  /\ pc = "op" /\ bpc = "monitor" /\ monPc = "done"
  /\ RetryResolve(ValueOf("createFile", fileId))
  /\ bpc' = "idle"
  /\ UNCHANGED <<call, envVars, outerVars, upVars, costVars, hcsVars, splitVars, contentsLen, chunks, i, offset, fileId, netVars, monVars>>

(* ========== HederaSmartContractService.deployLargeContract ============= *)
\* Step 1: FileCreateTransaction().setContents(bytecode.slice(0, 4096)).execute
DeployBegin ==
  /\ call = "deployLargeContract"
  /\ pc = "op" /\ bpc = "entry"
  /\ calls' = Append(calls, NetCall("create", <<0, Min(bytecodeChunk, contentsLen)>>, 0, 0))
  /\ netInFlight' = netInFlight + 1
  /\ i' = 0 /\ offset' = 0 /\ fileId' = 0
  /\ bpc' = "createExec"
  /\ UNCHANGED <<call, envVars, outerVars, upVars, costVars, hcsVars, splitVars, retryVars, contentsLen, chunks, files, metadata, contracts, monVars>>

DeployCreateOk ==
  /\ call = "deployLargeContract"
  /\ pc = "op" /\ bpc = "createExec"
  /\ calls' = Settle("submitted", 0)
  /\ netInFlight' = netInFlight - 1
  /\ bpc' = "receipt"
  /\ UNCHANGED <<call, envVars, outerVars, upVars, costVars, hcsVars, splitVars, retryVars, contentsLen, chunks, i, offset, fileId>>
  /\ UNCHANGED <<files, metadata, contracts, monVars>>

DeployCreateFail ==
  /\ call = "deployLargeContract"
  /\ pc = "op" /\ bpc = "createExec"
  /\ calls' = Settle("failed", 0)
  /\ netInFlight' = netInFlight - 1
  /\ RetryCatch(ErrorOf("create"))
  /\ bpc' = "idle"
  /\ UNCHANGED <<call, envVars, outerVars, upVars, costVars, hcsVars, splitVars, contentsLen, chunks, i, offset, fileId>>
  /\ UNCHANGED <<files, metadata, contracts, monVars>>

\* getReceipt resolves: fileId known; let offset = 4096
DeployReceiptOk ==
  /\ call = "deployLargeContract"
  /\ pc = "op" /\ bpc = "receipt"
  /\ calls' = Settle("ok", Len(files) + 1)
  /\ files' = Append(files, <<(<<0, Min(bytecodeChunk, contentsLen)>>)>>)
  /\ fileId' = Len(files) + 1
  /\ offset' = bytecodeChunk
  /\ bpc' = "appendLoop"
  /\ UNCHANGED <<call, envVars, outerVars, upVars, costVars, hcsVars, splitVars, retryVars, contentsLen, chunks, i>>
  /\ UNCHANGED <<netInFlight, metadata, contracts, monVars>>

DeployReceiptFail ==
  /\ call = "deployLargeContract"
  /\ pc = "op" /\ bpc = "receipt"
  /\ calls' = Settle("failed", 0)
  /\ \E created \in BOOLEAN :
       files' = IF created
                  THEN Append(files, <<(<<0, Min(bytecodeChunk, contentsLen)>>)>>)
                  ELSE files
  /\ RetryCatch(ErrorOf("createReceipt"))
  /\ bpc' = "idle"
  /\ UNCHANGED <<call, envVars, outerVars, upVars, costVars, hcsVars, splitVars, contentsLen, chunks, i, offset, fileId, netInFlight, metadata, contracts, monVars>>

\* while (offset < bytecode.length): append bytecode.slice(offset, offset + 4096)
DeployAppendIssue ==
  /\ call = "deployLargeContract"
  /\ pc = "op" /\ bpc = "appendLoop"
  /\ offset < contentsLen
  /\ calls' = Append(calls,
        NetCall("append", <<offset, Min(offset + bytecodeChunk, contentsLen)>>,
                offset \div bytecodeChunk, fileId))
  /\ netInFlight' = netInFlight + 1
  /\ bpc' = "appendExec"
  /\ UNCHANGED <<call, envVars, outerVars, upVars, costVars, hcsVars, splitVars, retryVars, contentsLen, chunks, i, offset, fileId>>
  /\ UNCHANGED <<files, metadata, contracts, monVars>>

\* the append resolves; offset += 4096
DeployAppendOk ==
  /\ call = "deployLargeContract"
  /\ pc = "op" /\ bpc = "appendExec"
  /\ calls' = Settle("ok", fileId)
  /\ netInFlight' = netInFlight - 1
  /\ files' = [files EXCEPT ![fileId] =
                 Append(@, <<offset, Min(offset + bytecodeChunk, contentsLen)>>)]
  /\ offset' = offset + bytecodeChunk
  /\ bpc' = "appendLoop"
  /\ UNCHANGED <<call, envVars, outerVars, upVars, costVars, hcsVars, splitVars, retryVars, contentsLen, chunks, i, fileId>>
  /\ UNCHANGED <<metadata, contracts, monVars>>

DeployAppendFail ==
  /\ call = "deployLargeContract"
  /\ pc = "op" /\ bpc = "appendExec"
  /\ calls' = Settle("failed", fileId)
  /\ netInFlight' = netInFlight - 1
  /\ \E applied \in BOOLEAN :
       files' = IF applied
                  THEN [files EXCEPT ![fileId] =
                          Append(@, <<offset, Min(offset + bytecodeChunk, contentsLen)>>)]
                  ELSE files
  /\ RetryCatch(ErrorOf("append"))
  /\ bpc' = "idle"
  /\ UNCHANGED <<call, envVars, outerVars, upVars, costVars, hcsVars, splitVars, contentsLen, chunks, i, offset, fileId>>
  /\ UNCHANGED <<metadata, contracts, monVars>>

\* faulty variant: the append loop is left one segment early
DeployContractIssueEarly ==
  /\ call = "deployLargeContract"
  /\ pc = "op" /\ bpc = "appendLoop"
  /\ ~(offset + bytecodeChunk < contentsLen)
  /\ calls' = Append(calls, NetCall("contractCreate", <<0, 0>>, 0, fileId))
  /\ netInFlight' = netInFlight + 1
  /\ bpc' = "contractExec"
  /\ UNCHANGED <<call, envVars, outerVars, upVars, costVars, hcsVars, splitVars, retryVars, contentsLen, chunks, i, offset, fileId>>
  /\ UNCHANGED <<files, metadata, contracts, monVars>>

\* Step 3: ContractCreateTransaction().setBytecodeFileId(fileId).execute
DeployContractIssue ==
  /\ call = "deployLargeContract"
  /\ pc = "op" /\ bpc = "appendLoop"
  /\ ~(offset < contentsLen)
  /\ calls' = Append(calls, NetCall("contractCreate", <<0, 0>>, 0, fileId))
  /\ netInFlight' = netInFlight + 1
  /\ bpc' = "contractExec"
  /\ UNCHANGED <<call, envVars, outerVars, upVars, costVars, hcsVars, splitVars, retryVars, contentsLen, chunks, i, offset, fileId>>
  /\ UNCHANGED <<files, metadata, contracts, monVars>>

DeployContractOk ==
  /\ call = "deployLargeContract"
  /\ pc = "op" /\ bpc = "contractExec"
  /\ calls' = Settle("submitted", fileId)
  /\ netInFlight' = netInFlight - 1
  /\ bpc' = "contractReceipt"
  /\ UNCHANGED <<call, envVars, outerVars, upVars, costVars, hcsVars, splitVars, retryVars, contentsLen, chunks, i, offset, fileId>>
  /\ UNCHANGED <<files, metadata, contracts, monVars>>

DeployContractFail ==
  /\ call = "deployLargeContract"
  /\ pc = "op" /\ bpc = "contractExec"
  /\ calls' = Settle("failed", fileId)
  /\ netInFlight' = netInFlight - 1
  /\ RetryCatch(ErrorOf("contractCreate"))
  /\ bpc' = "idle"
  /\ UNCHANGED <<call, envVars, outerVars, upVars, costVars, hcsVars, splitVars, contentsLen, chunks, i, offset, fileId>>
  /\ UNCHANGED <<files, metadata, contracts, monVars>>

\* the contract receipt resolves; await monitorTransaction(...)
DeployContractReceiptOk ==
  /\ call = "deployLargeContract"
  /\ pc = "op" /\ bpc = "contractReceipt"
  /\ calls' = Settle("ok", fileId)
  /\ contracts' = Append(contracts, fileId)
  /\ MonitorEnter
  /\ bpc' = "monitor"
  /\ UNCHANGED <<call, envVars, outerVars, upVars, costVars, hcsVars, splitVars, retryVars, contentsLen, chunks, i, offset, fileId>>
  /\ UNCHANGED <<netInFlight, files, metadata>>

DeployContractReceiptFail ==
  /\ call = "deployLargeContract"
  /\ pc = "op" /\ bpc = "contractReceipt"
  /\ calls' = Settle("failed", fileId)
  /\ RetryCatch(ErrorOf("contractReceipt"))
  /\ bpc' = "idle"
  /\ UNCHANGED <<call, envVars, outerVars, upVars, costVars, hcsVars, splitVars, contentsLen, chunks, i, offset, fileId, netInFlight, files, metadata, contracts, monVars>>

DeployReturn ==
  /\ call = "deployLargeContract"
  /\ pc = "op" /\ bpc = "monitor" /\ monPc = "done"
  /\ RetryResolve(ValueOf("deployLargeContract", fileId))
  /\ bpc' = "idle"
  /\ UNCHANGED <<call, envVars, outerVars, upVars, costVars, hcsVars, splitVars, contentsLen, chunks, i, offset, fileId, netVars, monVars>>

(* ===================== splitting, byte by byte ========================= *)
\* The two split loops on their own, on the bytes themselves.  `segment` is
\* the step of the loop: 6144 in createFile, 4096 in deployLargeContract.

\* faulty variant: the slice starts one byte late
SliceOffByOne(buf, start, end) == SubSeq(buf, start + 2, Min(end + 1, Len(buf)))

\* Buffer.prototype.slice(start, end): bytes start .. min(end, length) - 1
Slice(buf, start, end) == SubSeq(buf, start + 1, Min(end, Len(buf)))

\* the content of a network file: what was created, then every append, in
\* the order applied
RECURSIVE Reassemble(_)
Reassemble(cs) == IF cs = <<>> THEN <<>> ELSE Head(cs) \o Reassemble(Tail(cs))

\* faulty variant: the loop steps one byte too far
SplitPushSkipByte ==
  /\ call = "splitContents"
  /\ bpc = "splitLoop"
  /\ i < Len(payload)
  /\ byteChunks' = Append(byteChunks, Slice(payload, i, i + segment))
  /\ i' = i + segment + 1
  /\ UNCHANGED <<call, envVars, outerVars, upVars, costVars, hcsVars, payload, segment, retryVars, netVars, monVars>>
  /\ UNCHANGED <<bpc, contentsLen, chunks, offset, fileId>>

\* createFile: for (let i = 0; i < contents.length; i += chunkSize)
\*               chunks.push(contents.slice(i, i + chunkSize))
SplitPush ==
  /\ call = "splitContents"
  /\ bpc = "splitLoop"
  /\ i < Len(payload)
  /\ byteChunks' = Append(byteChunks, Slice(payload, i, i + segment))
  /\ i' = i + segment
  /\ UNCHANGED <<call, envVars, outerVars, upVars, costVars, hcsVars, payload, segment, retryVars, netVars, monVars>>
  /\ UNCHANGED <<bpc, contentsLen, chunks, offset, fileId>>

\* createFile: the loop test i < contents.length is false
SplitEnd ==
  /\ call = "splitContents"
  /\ bpc = "splitLoop"
  /\ ~(i < Len(payload))
  /\ bpc' = "splitDone"
  /\ UNCHANGED <<call, envVars, outerVars, upVars, costVars, hcsVars, splitVars, retryVars, netVars, monVars>>
  /\ UNCHANGED <<contentsLen, chunks, i, offset, fileId>>

\* deployLargeContract: setContents(bytecode.slice(0, 4096)); let offset = 4096
BytecodeSliceFirst ==
  /\ call = "splitBytecode"
  /\ bpc = "splitFirst"
  /\ byteChunks' = <<Slice(payload, 0, segment)>>
  /\ offset' = segment
  /\ bpc' = "splitLoop"
  /\ UNCHANGED <<call, envVars, outerVars, upVars, costVars, hcsVars, payload, segment, retryVars, netVars, monVars>>
  /\ UNCHANGED <<contentsLen, chunks, i, fileId>>

\* deployLargeContract: while (offset < bytecode.length)
\*   chunk = bytecode.slice(offset, offset + 4096); offset += 4096
BytecodeSliceNext ==
  /\ call = "splitBytecode"
  /\ bpc = "splitLoop"
  /\ offset < Len(payload)
  /\ byteChunks' = Append(byteChunks, Slice(payload, offset, offset + segment))
  /\ offset' = offset + segment
  /\ UNCHANGED <<call, envVars, outerVars, upVars, costVars, hcsVars, payload, segment, retryVars, netVars, monVars>>
  /\ UNCHANGED <<bpc, contentsLen, chunks, i, fileId>>

\* deployLargeContract: the while test is false
BytecodeSliceEnd ==
  /\ call = "splitBytecode"
  /\ bpc = "splitLoop"
  /\ ~(offset < Len(payload))
  /\ bpc' = "splitDone"
  /\ UNCHANGED <<call, envVars, outerVars, upVars, costVars, hcsVars, splitVars, retryVars, netVars, monVars>>
  /\ UNCHANGED <<contentsLen, chunks, i, offset, fileId>>

(* ====================== HederaConsensusService ========================= *)
\* A string is the sequence of its characters, so that substring(0, 16) is
\* computed.  undefined and null are one-element sequences that no string
\* equals.
Undefined == <<"<undefined>">>
Null == <<"<null>">>

\* a property the entry type does not have
Absent == <<"<absent>">>

\* the identifiers callers pass: 'user-42', 'user-43', '' and '10.0.0.1'
UserA == <<"u", "s", "e", "r", "-", "4", "2">>
UserB == <<"u", "s", "e", "r", "-", "4", "3">>
EmptyString == <<>>
IpA == <<"1", "0", ".", "0", ".", "0", ".", "1">>

\* the number of values crypto.randomBytes(16) is drawn from
NumNonces == 2

Nonces == 1..NumNonces

\* length of the digest prefix kept by hashUserId / hashIpAddress
DigestLen == 16

\* crypto.createHash('sha256').update(s).digest('hex'), tabulated for the
\* identifiers above
Sha256Hex(s) ==
  CASE
       s = UserA ->
        <<"6", "d", "8", "9", "4", "a", "a", "3", "e", "e", "8", "0", "2", "5", "4", "9",
          "d", "7", "f", "3", "4", "0", "e", "7", "c", "1", "c", "f", "0", "d", "1", "c",
          "1", "c", "b", "1", "4", "c", "d", "8", "4", "f", "7", "6", "8", "d", "9", "2",
          "f", "f", "a", "a", "6", "7", "8", "5", "3", "3", "7", "c", "4", "9", "9", "7">>
    [] s = UserB ->
        <<"8", "5", "8", "5", "8", "a", "4", "c", "3", "0", "f", "2", "3", "4", "7", "2",
          "a", "7", "4", "3", "9", "3", "a", "a", "9", "6", "9", "6", "f", "8", "0", "7",
          "e", "3", "3", "4", "0", "4", "9", "e", "2", "e", "8", "6", "a", "a", "7", "b",
          "9", "b", "2", "4", "6", "e", "5", "2", "d", "2", "a", "1", "b", "1", "e", "2">>
    [] s = EmptyString ->
        <<"e", "3", "b", "0", "c", "4", "4", "2", "9", "8", "f", "c", "1", "c", "1", "4",
          "9", "a", "f", "b", "f", "4", "c", "8", "9", "9", "6", "f", "b", "9", "2", "4",
          "2", "7", "a", "e", "4", "1", "e", "4", "6", "4", "9", "b", "9", "3", "4", "c",
          "a", "4", "9", "5", "9", "9", "1", "b", "7", "8", "5", "2", "b", "8", "5", "5">>
    [] s = IpA ->
        <<"f", "5", "0", "4", "7", "3", "4", "4", "1", "2", "2", "f", "0", "d", "e", "e",
          "9", "9", "7", "4", "b", "a", "6", "7", "6", "1", "e", "6", "1", "c", "6", "b",
          "8", "6", "4", "9", "e", "1", "f", "3", "9", "6", "8", "d", "1", "3", "a", "6",
          "3", "5", "e", "b", "b", "f", "7", "b", "e", "5", "3", "a", "3", "a", "0", "d">>

\* String.prototype.substring(0, n)
Substring0(s, n) == SubSeq(s, 1, Min(n, Len(s)))

\* faulty variant: the identifier is returned as it was supplied
hashUserIdRaw(userId) == userId

\* crypto.createHash('sha256').update(userId).digest('hex').substring(0, 16)
hashUserId(userId) == Substring0(Sha256Hex(userId), DigestLen)

\* faulty variant: the prefix kept is 8 characters long
hashIpAddressShort(ip) == Substring0(Sha256Hex(ip), 8)

\* crypto.createHash('sha256').update(ip).digest('hex').substring(0, 16)
hashIpAddress(ip) == Substring0(Sha256Hex(ip), DigestLen)

\* the condition of `x ? ... : null` for a string | undefined
Truthy(x) == x # Undefined /\ x # Null /\ x # EmptyString

\* The logEntry objects.  Of their properties the model keeps type and the
\* properties that name a person or a device; transactionId, amount,
\* currency, status, metadata, eventType, ... are copied from the argument
\* unchanged and timestamp is new Date().toISOString().
TransactionLog(t) ==
  [type |-> "TRANSACTION_LOG",
   userId |-> hashUserId(t.userId),
   recipientId |-> IF Truthy(t.recipientId) THEN hashUserId(t.recipientId) ELSE Null,
   ipAddress |-> Absent,
   deviceId |-> Absent]

TontineActivity(a) ==
  [type |-> "TONTINE_ACTIVITY",
   userId |-> IF Truthy(a.userId) THEN hashUserId(a.userId) ELSE Null,
   recipientId |-> Absent,
   ipAddress |-> Absent,
   deviceId |-> Absent]

ComplianceEvent(e) ==
  [type |-> "COMPLIANCE_EVENT",
   userId |-> hashUserId(e.userId),
   recipientId |-> Absent,
   ipAddress |-> Absent,
   deviceId |-> Absent]

SecurityEvent(e) ==
  [type |-> "SECURITY_EVENT",
   userId |-> IF Truthy(e.userId) THEN hashUserId(e.userId) ELSE Null,
   recipientId |-> Absent,
   ipAddress |-> IF Truthy(e.ipAddress) THEN hashIpAddress(e.ipAddress) ELSE Null,
   deviceId |-> e.deviceId]

NoEntry ==
  [type |-> "none", userId |-> Absent, recipientId |-> Absent,
   ipAddress |-> Absent, deviceId |-> Absent]

NoInput ==
  [userId |-> Undefined, recipientId |-> Undefined, ipAddress |-> Undefined,
   deviceId |-> Undefined]

\* JSON.stringify(message): a property whose value is undefined is left out
\* (type is a string literal in every entry)
JsonStringify(m) ==
  [form |-> "json", iv |-> 0,
   body |-> [k \in DOMAIN m |->
               IF k # "type" /\ m[k] = Undefined THEN Absent ELSE m[k]]]

\* encryptMessage(message) with iv the value crypto.randomBytes(16) returned:
\* iv.toString('hex') + ':' + authTag.toString('hex') + ':' + encrypted, where
\* body stands for the AES-256-GCM ciphertext and tag of message under the
\* configured key and iv
encryptMessage(message, iv) ==
  [form |-> "iv:authTag:encrypted", iv |-> iv, body |-> message.body]

\* faulty variant: only the first attempt encrypts
MessageStringPlainOnRetry(iv) ==
  IF encrypt /\ attempt = 1
    THEN encryptMessage(JsonStringify(logEntry), iv)
    ELSE JsonStringify(logEntry)

\* messageString at the line `Buffer.from(messageString, 'utf-8')`
MessageString(iv) ==
  IF encrypt
    THEN encryptMessage(JsonStringify(logEntry), iv)
    ELSE JsonStringify(logEntry)

HcsCalls ==
  {"submitMessage", "logTransaction", "logTontineActivity",
   "logComplianceEvent", "logSecurityEvent"}

\* new Error('<Topic> topic not initialized'), thrown by the logger itself
TopicNotInitialized ==
  [kind |-> "error", by |-> 0, src |-> "topicNotInitialized", file |-> 0]

\* faulty variant: the topic test is missing
LogStartNoTopicTest(c, entry, enc) ==
  /\ call = c
  /\ pc = "idle"
  /\ pc' = "loop"
  /\ maxRetries' = DefaultMaxRetries
  /\ attempt' = 1
  /\ logEntry' = entry
  /\ encrypt' = enc
  /\ UNCHANGED <<outcome, delays, invocations, opsInFlight, trace>>
  /\ UNCHANGED <<call, envVars, outerVars, upVars, costVars, hcsKey, topicSet, input, submitted, ivs>>
  /\ UNCHANGED <<bodyVars, netVars, monVars, splitVars>>

\* A logger: the topic test, the logEntry literal and the call of
\* submitMessage(topic, logEntry, enc) up to the entry of executeWithRetry.
LogStart(c, entry, enc) ==
  /\ call = c
  /\ pc = "idle"
  /\ IF ~topicSet
       THEN /\ pc' = "thrown"
            /\ outcome' = TopicNotInitialized
            /\ UNCHANGED <<maxRetries, attempt, logEntry, encrypt>>
       ELSE /\ pc' = "loop"
            /\ maxRetries' = DefaultMaxRetries
            /\ attempt' = 1
            /\ logEntry' = entry
            /\ encrypt' = enc
            /\ UNCHANGED outcome
  /\ UNCHANGED <<delays, invocations, opsInFlight, trace>>
  /\ UNCHANGED <<call, envVars, outerVars, upVars, costVars, hcsKey, topicSet, input, submitted, ivs>>
  /\ UNCHANGED <<bodyVars, netVars, monVars, splitVars>>

LogTransaction == LogStart("logTransaction", TransactionLog(input), FALSE)

LogTontineActivity == LogStart("logTontineActivity", TontineActivity(input), FALSE)

LogComplianceEvent == LogStart("logComplianceEvent", ComplianceEvent(input), TRUE)

LogSecurityEvent == LogStart("logSecurityEvent", SecurityEvent(input), TRUE)

(* --- submitMessage: the operation it passes to executeWithRetry --- *)
\* one message handed to submitTx.execute
Submission(m) == [msg |-> m, attempt |-> attempt, status |-> "pending"]

SubmitSettle(st) == [submitted EXCEPT ![Len(submitted)].status = st]

\* faulty variant: without a key the entry is submitted as it is
SubmitMissingKeyPlaintext ==
  /\ call \in HcsCalls
  /\ pc = "op" /\ bpc = "entry"
  /\ encrypt /\ hcsKey = "missing"
  /\ submitted' = Append(submitted, Submission(JsonStringify(logEntry)))
  /\ netInFlight' = netInFlight + 1
  /\ bpc' = "submitExec"
  /\ UNCHANGED <<call, envVars, outerVars, upVars, costVars, hcsKey, topicSet, input, logEntry, encrypt, ivs>>
  /\ UNCHANGED <<retryVars, contentsLen, chunks, i, offset, fileId>>
  /\ UNCHANGED <<calls, files, metadata, contracts, monVars, splitVars>>

\* encrypt is true and process.env.HCS_ENCRYPTION_KEY is unset or empty:
\* throw new Error('Missing HCS_ENCRYPTION_KEY in environment'), inside the
\* operation, so the catch block of executeWithRetry receives it
SubmitMissingKey ==
  /\ call \in HcsCalls
  /\ pc = "op" /\ bpc = "entry"
  /\ encrypt /\ hcsKey = "missing"
  /\ RetryCatch(ErrorOf("missingKey"))
  /\ bpc' = "idle"
  /\ UNCHANGED <<call, envVars, outerVars, upVars, costVars, hcsVars, splitVars>>
  /\ UNCHANGED <<contentsLen, chunks, i, offset, fileId, netVars, monVars>>

\* the key is set but is not 32 bytes of hex: crypto.randomBytes(16) has
\* returned, crypto.createCipheriv throws
SubmitEncryptFail ==
  /\ call \in HcsCalls
  /\ pc = "op" /\ bpc = "entry"
  /\ encrypt /\ hcsKey = "invalid"
  /\ \E iv \in Nonces : ivs' = Append(ivs, iv)
  /\ RetryCatch(ErrorOf("encrypt"))
  /\ bpc' = "idle"
  /\ UNCHANGED <<call, envVars, outerVars, upVars, costVars, hcsKey, topicSet, input, logEntry, encrypt, submitted>>
  /\ UNCHANGED <<contentsLen, chunks, i, offset, fileId, netVars, monVars, splitVars>>

\* messageString is built and submitTx.execute(this.client) is called
SubmitIssue ==
  /\ call \in HcsCalls
  /\ pc = "op" /\ bpc = "entry"
  /\ ~encrypt \/ hcsKey = "valid"
  /\ IF encrypt
       THEN \E iv \in Nonces :
              /\ ivs' = Append(ivs, iv)
              /\ submitted' = Append(submitted, Submission(MessageString(iv)))
       ELSE /\ ivs' = ivs
            /\ submitted' = Append(submitted, Submission(MessageString(0)))
  /\ netInFlight' = netInFlight + 1
  /\ bpc' = "submitExec"
  /\ UNCHANGED <<call, envVars, outerVars, upVars, costVars, hcsKey, topicSet, input, logEntry, encrypt>>
  /\ UNCHANGED <<retryVars, contentsLen, chunks, i, offset, fileId>>
  /\ UNCHANGED <<calls, files, metadata, contracts, monVars, splitVars>>

\* submitTx.execute resolves; submitResponse.getReceipt(this.client) is called
SubmitExecOk ==
  /\ call \in HcsCalls
  /\ pc = "op" /\ bpc = "submitExec"
  /\ submitted' = SubmitSettle("executed")
  /\ netInFlight' = netInFlight - 1
  /\ bpc' = "submitReceipt"
  /\ UNCHANGED <<call, envVars, outerVars, upVars, costVars, hcsKey, topicSet, input, logEntry, encrypt, ivs>>
  /\ UNCHANGED <<retryVars, contentsLen, chunks, i, offset, fileId>>
  /\ UNCHANGED <<calls, files, metadata, contracts, monVars, splitVars>>

\* submitTx.execute rejects
SubmitExecFail ==
  /\ call \in HcsCalls
  /\ pc = "op" /\ bpc = "submitExec"
  /\ submitted' = SubmitSettle("failed")
  /\ netInFlight' = netInFlight - 1
  /\ RetryCatch(ErrorOf("submit"))
  /\ bpc' = "idle"
  /\ UNCHANGED <<call, envVars, outerVars, upVars, costVars, hcsKey, topicSet, input, logEntry, encrypt, ivs>>
  /\ UNCHANGED <<contentsLen, chunks, i, offset, fileId>>
  /\ UNCHANGED <<calls, files, metadata, contracts, monVars, splitVars>>

\* getReceipt resolves: await monitorTransaction(transactionId) is entered
SubmitReceiptOk ==
  /\ call \in HcsCalls
  /\ pc = "op" /\ bpc = "submitReceipt"
  /\ submitted' = SubmitSettle("ok")
  /\ MonitorEnter
  /\ bpc' = "monitor"
  /\ UNCHANGED <<call, envVars, outerVars, upVars, costVars, hcsKey, topicSet, input, logEntry, encrypt, ivs>>
  /\ UNCHANGED <<retryVars, contentsLen, chunks, i, offset, fileId, netVars, splitVars>>

\* getReceipt rejects
SubmitReceiptFail ==
  /\ call \in HcsCalls
  /\ pc = "op" /\ bpc = "submitReceipt"
  /\ submitted' = SubmitSettle("failed")
  /\ RetryCatch(ErrorOf("submitReceipt"))
  /\ bpc' = "idle"
  /\ UNCHANGED <<call, envVars, outerVars, upVars, costVars, hcsKey, topicSet, input, logEntry, encrypt, ivs>>
  /\ UNCHANGED <<contentsLen, chunks, i, offset, fileId, netVars, monVars, splitVars>>

\* faulty variant: a submission the poller did not see confirmed is treated
\* as a failure of the attempt
SubmitReturnRequiresConfirmed ==
  /\ call \in HcsCalls
  /\ pc = "op" /\ bpc = "monitor" /\ monPc = "done"
  /\ IF monState = "Confirmed"
       THEN RetryResolve(ValueOf("submitMessage", 0))
       ELSE RetryCatch(ErrorOf("notConfirmed"))
  /\ bpc' = "idle"
  /\ UNCHANGED <<call, envVars, outerVars, upVars, costVars, hcsVars, splitVars>>
  /\ UNCHANGED <<contentsLen, chunks, i, offset, fileId, netVars, monVars>>

\* monitorTransaction has returned: return {success: true, topicId, ...}
SubmitReturn ==
  /\ call \in HcsCalls
  /\ pc = "op" /\ bpc = "monitor" /\ monPc = "done"
  /\ RetryResolve(ValueOf("submitMessage", 0))
  /\ bpc' = "idle"
  /\ UNCHANGED <<call, envVars, outerVars, upVars, costVars, hcsVars, splitVars>>
  /\ UNCHANGED <<contentsLen, chunks, i, offset, fileId, netVars, monVars>>

(* ==================== calculateDailyCosts (cost-tracker) ================ *)
\* JavaScript numbers are IEEE-754 doubles.  A natural number of any size is
\* the little-endian sequence of its bits without high zero bits; a double
\* is m * 2^e with m of at most MantissaBits bits (zero: m = <<>>).
MantissaBits == 53

\* the bits of n, lowest first, for 0 <= n < 2^31
NatBits(n) ==
  LET len == Cardinality({k \in 0..30 : 2 ^ k <= n})
  IN SubSeq([k \in 1..31 |-> (n \div 2 ^ (k - 1)) % 2], 1, len)

BitAt(a, k) == IF k <= Len(a) THEN a[k] ELSE 0

\* the carry into bit k of a + b: some lower bit generates one and every
\* bit between passes it on
CarryIn(a, b, k) ==
  IF \E j \in 1..(k - 1) :
       /\ BitAt(a, j) = 1 /\ BitAt(b, j) = 1
       /\ \A m \in (j + 1)..(k - 1) : BitAt(a, m) + BitAt(b, m) >= 1
    THEN 1 ELSE 0

BigAdd(a, b) ==
  LET n == IF Len(a) >= Len(b) THEN Len(a) ELSE Len(b)
      s == [k \in 1..(n + 1) |-> (BitAt(a, k) + BitAt(b, k) + CarryIn(a, b, k)) % 2]
  IN SubSeq(s, 1, IF s[n + 1] = 1 THEN n + 1 ELSE n)

\* a * 2^k
ShiftLeft(a, k) == IF a = <<>> THEN <<>> ELSE [j \in 1..k |-> 0] \o a

\* a * 2^j if bit j of n is set, else 0
Term(a, n, j) == IF (n \div 2 ^ j) % 2 = 1 THEN ShiftLeft(a, j) ELSE <<>>

Sum2(a, n, j) == BigAdd(Term(a, n, j), Term(a, n, j + 1))

Sum4(a, n, j) == BigAdd(Sum2(a, n, j), Sum2(a, n, j + 2))

Sum8(a, n, j) == BigAdd(Sum4(a, n, j), Sum4(a, n, j + 4))

\* a * n for 0 <= n < 2^16: the sum of the shifted copies of a for the bits
\* of n
BigMul(a, n) == BigAdd(Sum8(a, n, 0), Sum8(a, n, 8))

\* round to nearest, ties to even: the double nearest to big * 2^e
RoundToDouble(big, e) ==
  IF Len(big) <= MantissaBits THEN [m |-> big, e |-> e]
  ELSE LET d      == Len(big) - MantissaBits
           kept   == SubSeq(big, d + 1, Len(big))
           guard  == big[d]
           sticky == \E k \in 1..(d - 1) : big[k] = 1
           up     == guard = 1 /\ (sticky \/ kept[1] = 1)
           r      == IF up THEN BigAdd(kept, <<1>>) ELSE kept
       IN IF Len(r) > MantissaBits
            THEN [m |-> SubSeq(r, 2, Len(r)), e |-> e + d + 1]
            ELSE [m |-> r, e |-> e + d]

DoubleZero == [m |-> <<>>, e |-> 0]

\* n * c for an integer n below 2^16 and a double c
DoubleMulInt(n, c) == RoundToDouble(BigMul(c.m, n), IF n = 0 THEN 0 ELSE c.e)

\* x + y
DoubleAdd(x, y) ==
  IF x.m = <<>> THEN y
  ELSE IF y.m = <<>> THEN x
  ELSE LET e0 == Min(x.e, y.e)
       IN RoundToDouble(BigAdd(ShiftLeft(x.m, x.e - e0), ShiftLeft(y.m, y.e - e0)), e0)

\* the literal 0.001 (0x1.0624dd2f1a9fcp-10)
HtsUnitCost ==
  [m |-> <<0, 0, 1, 1, 1, 1, 1, 1, 1, 0, 0, 1, 0, 1, 0, 1, 1, 0, 0, 0, 1, 1, 1, 1, 0, 1, 0,
         0, 1, 0, 1, 1, 1, 0, 1, 1, 0, 0, 1, 0, 0, 1, 0, 0, 0, 1, 1, 0, 0, 0, 0, 0, 1>>,
   e |-> -62]

\* the literal 0.0001 (0x1.a36e2eb1c432dp-14)
HcsUnitCost ==
  [m |-> <<1, 0, 1, 1, 0, 1, 0, 0, 1, 1, 0, 0, 0, 0, 1, 0, 0, 0, 1, 1, 1, 0, 0, 0, 1, 1, 0,
         1, 0, 1, 1, 1, 0, 1, 0, 0, 0, 1, 1, 1, 0, 1, 1, 0, 1, 1, 0, 0, 0, 1, 0, 1, 1>>,
   e |-> -66]

\* the literal 0.05 (0x1.999999999999ap-5)
HscsUnitCost ==
  [m |-> <<0, 1, 0, 1, 1, 0, 0, 1, 1, 0, 0, 1, 1, 0, 0, 1, 1, 0, 0, 1, 1, 0, 0, 1, 1, 0, 0,
         1, 1, 0, 0, 1, 1, 0, 0, 1, 1, 0, 0, 1, 1, 0, 0, 1, 1, 0, 0, 1, 1, 0, 0, 1, 1>>,
   e |-> -57]

NoCosts ==
  [htsTransfers |-> DoubleZero, hcsMessages |-> DoubleZero,
   contractExecutions |-> DoubleZero, totalCost |-> DoubleZero, set |-> FALSE]

\* faulty variant: the execution cost is left out of the total
CostTrackerNoExecutions(htsCost, hcsCost, hscsCost) ==
  [htsTransfers |-> htsCost, hcsMessages |-> hcsCost,
   contractExecutions |-> hscsCost,
   totalCost |-> DoubleAdd(htsCost, hcsCost), set |-> TRUE]

\* the object literal returned
CostTrackerOf(htsCost, hcsCost, hscsCost) ==
  [htsTransfers |-> htsCost, hcsMessages |-> hcsCost,
   contractExecutions |-> hscsCost,
   totalCost |-> DoubleAdd(DoubleAdd(htsCost, hcsCost), hscsCost), set |-> TRUE]

calculateDailyCosts ==
  /\ call = "calculateDailyCosts"
  /\ ~costs.set
  /\ costs' = CostTrackerOf(DoubleMulInt(htsCount, HtsUnitCost),
                            DoubleMulInt(hcsCount, HcsUnitCost),
                            DoubleMulInt(hscsCount, HscsUnitCost))
  /\ UNCHANGED <<htsCount, hcsCount, hscsCount>>
  /\ UNCHANGED <<call, envVars, outerVars, upVars, hcsVars, retryVars, bodyVars, netVars, monVars, splitVars>>

(* ========================= the caller's side =========================== *)
\* The caller of executeWithRetry(operation, maxRetries) or of
\* monitorTransaction(transactionId) gives up while the function is in its
\* setTimeout wait.  Neither signature has a parameter through which the
\* signal or a deadline could reach the function, and neither wait is tied
\* to anything but its timer: no step of the functions reads these variables.
Cancel ==
  /\ call \in {"executeWithRetry", "monitorTransaction"}
  /\ ~cancelled
  /\ pc = "sleep" \/ monPc = "sleep"
  /\ cancelled' = TRUE
  /\ UNCHANGED <<call, deadline, outerVars, upVars, costVars, hcsVars, retryVars, bodyVars, netVars, monVars, splitVars>>

\* the deadlines a caller may have in mind
Deadlines == {3000, 30000}

InitEnvNone == cancelled = FALSE /\ deadline = 0

InitHcsIdle ==
  /\ hcsKey = "missing" /\ topicSet = FALSE /\ input = NoInput
  /\ logEntry = NoEntry /\ encrypt = FALSE /\ submitted = <<>> /\ ivs = <<>>

\* the states of process.env.HCS_ENCRYPTION_KEY
KeyStates == {"missing", "valid", "invalid"}

\* the argument objects the loggers are called with
LoggerInputs(c) ==
  CASE c = "logTransaction" ->
         {[NoInput EXCEPT !.userId = u, !.recipientId = r] :
            u \in {UserA, EmptyString}, r \in {Undefined, EmptyString, UserB}}
    [] c = "logTontineActivity" ->
         {[NoInput EXCEPT !.userId = u] : u \in {Undefined, EmptyString, UserA}}
    [] c = "logComplianceEvent" ->
         {[NoInput EXCEPT !.userId = u] : u \in {UserA, EmptyString}}
    [] c = "logSecurityEvent" ->
         {[NoInput EXCEPT !.userId = u, !.ipAddress = a, !.deviceId = d] :
            u \in {Undefined, UserA}, a \in {Undefined, IpA},
            d \in {Undefined, UserB}}

\* a message a caller passes to submitMessage directly
RawMessage ==
  [type |-> "MESSAGE", userId |-> UserA, recipientId |-> Absent,
   ipAddress |-> Absent, deviceId |-> Undefined]

\* a logger is called on a constructed service
InitLogger(c) ==
  /\ call = c
  /\ hcsKey \in (IF c \in {"logComplianceEvent", "logSecurityEvent"}
                   THEN KeyStates ELSE {"missing"})
  /\ topicSet \in BOOLEAN
  /\ input \in LoggerInputs(c)
  /\ logEntry = NoEntry /\ encrypt = FALSE /\ submitted = <<>> /\ ivs = <<>>

\* submitMessage(topicId, message, encrypt) is called directly
InitSubmit ==
  /\ call = "submitMessage"
  /\ hcsKey \in KeyStates
  /\ topicSet = TRUE /\ input = NoInput
  /\ logEntry = RawMessage /\ encrypt \in BOOLEAN
  /\ submitted = <<>> /\ ivs = <<>>

InitCostIdle == htsCount = 0 /\ hcsCount = 0 /\ hscsCount = 0 /\ costs = NoCosts

\* the counts calculateDailyCosts is called with: every small triple, and the
\* default parameters (10000, 5000, 500)
CountInputs ==
  ((0..MaxCount) \X (0..MaxCount) \X (0..MaxCount)) \cup {<<10000, 5000, 500>>}

(* ============ two createFile calls running concurrently =============== *)
\* Two calls of HederaFileService.createFile on one service object, each
\* with its own contents.  chunks, fileCreateReceipt and the loop index are
\* locals of each call's closure; the service object holds only the client.
Uploads == {1, 2}

\* contents.length of each upload
UploadLen(u) == IF u = 1 THEN 10000 ELSE 13000

\* chunk k of upload u: the bytes lo..hi of that upload's contents
UploadChunks(u) ==
  LET c == Split(UploadLen(u), chunkSize)
  IN [k \in DOMAIN c |-> <<u, c[k][1], c[k][2]>>]

UploadIdle ==
  [pc |-> "idle", attempt |-> 0, chunks |-> <<>>, i |-> 0, fileId |-> 0,
   target |-> 0, result |-> 0]

InitUploadsIdle == ups = [u \in Uploads |-> UploadIdle] /\ store = <<>>

InitOuterIdle ==
  /\ oPc = "idle" /\ oAttempt = 0 /\ oOutcome = NoOutcome /\ phase = "none"
  /\ txIssued = 0 /\ txApplied = 0 /\ amount = 0 /\ recipient = FALSE

\* both calls have entered executeWithRetry
InitUploads ==
  /\ ups = [u \in Uploads |-> [UploadIdle EXCEPT !.pc = "loop", !.attempt = 1]]
  /\ store = <<>>

\* a file the network created for the create call of attempt a of upload u
NewFile(u, a, chunk) == [creator |-> u, attempt |-> a, contents |-> <<chunk>>]

\* the catch block of executeWithRetry for upload u
UpCatch(u) ==
  IF ups[u].attempt = DefaultMaxRetries
    THEN [ups[u] EXCEPT !.pc = "thrown"]
    ELSE [ups[u] EXCEPT !.pc = "sleep"]

UpUnchanged ==
  UNCHANGED <<call, envVars, outerVars, costVars, hcsVars, retryVars, bodyVars, netVars,
              monVars, splitVars>>

\* operation() is called: the chunks are cut and fileCreateTx.execute is issued
UpBegin(u) ==
  /\ ups[u].pc = "loop"
  /\ ups[u].attempt <= DefaultMaxRetries
  /\ ups' = [ups EXCEPT ![u] = [@ EXCEPT !.pc = "createExec",
                                         !.chunks = UploadChunks(u),
                                         !.i = 0, !.fileId = 0, !.target = 0]]
  /\ UNCHANGED store
  /\ UpUnchanged

UpCreateOk(u) ==
  /\ ups[u].pc = "createExec"
  /\ ups' = [ups EXCEPT ![u].pc = "receipt"]
  /\ UNCHANGED store
  /\ UpUnchanged

UpCreateFail(u) ==
  /\ ups[u].pc = "createExec"
  /\ ups' = [ups EXCEPT ![u] = UpCatch(u)]
  /\ UNCHANGED store
  /\ UpUnchanged

\* getReceipt resolves with the FileId the network gave the new file
UpReceiptOk(u) ==
  /\ ups[u].pc = "receipt"
  /\ store' = Append(store, NewFile(u, ups[u].attempt, ups[u].chunks[1]))
  /\ ups' = [ups EXCEPT ![u] = [@ EXCEPT !.pc = "appendLoop",
                                         !.fileId = Len(store) + 1, !.i = 1]]
  /\ UpUnchanged

\* getReceipt rejects; the file may exist all the same
UpReceiptFail(u) ==
  /\ ups[u].pc = "receipt"
  /\ \E created \in BOOLEAN :
       store' = IF created
                  THEN Append(store, NewFile(u, ups[u].attempt, ups[u].chunks[1]))
                  ELSE store
  /\ ups' = [ups EXCEPT ![u] = UpCatch(u)]
  /\ UpUnchanged

\* faulty variant: the file id is kept in a field of the service object that
\* every call overwrites
AppendTargetShared(u) == Len(store)

\* setFileId(fileId) of the FileAppendTransaction of upload u
AppendTarget(u) == ups[u].fileId

\* i < chunks.length: appendTx.execute is issued for chunks[i]
UpAppendIssue(u) ==
  /\ ups[u].pc = "appendLoop"
  /\ ups[u].i < Len(ups[u].chunks)
  /\ ups' = [ups EXCEPT ![u] = [@ EXCEPT !.pc = "appendExec",
                                         !.target = AppendTarget(u)]]
  /\ UNCHANGED store
  /\ UpUnchanged

\* the network applies the append to the file it names
Applied(u) ==
  [store EXCEPT ![ups[u].target].contents = Append(@, ups[u].chunks[ups[u].i + 1])]

UpAppendOk(u) ==
  /\ ups[u].pc = "appendExec"
  /\ store' = Applied(u)
  /\ ups' = [ups EXCEPT ![u] = [@ EXCEPT !.pc = "appendLoop", !.i = @ + 1]]
  /\ UpUnchanged

UpAppendFail(u) ==
  /\ ups[u].pc = "appendExec"
  /\ \E applied \in BOOLEAN : store' = IF applied THEN Applied(u) ELSE store
  /\ ups' = [ups EXCEPT ![u] = UpCatch(u)]
  /\ UpUnchanged

\* the append loop has ended: the operation goes on to storeFileMetadata and
\* monitorTransaction, which touch neither the chunks nor the file, and
\* returns fileId
UpReturn(u) ==
  /\ ups[u].pc = "appendLoop"
  /\ ~(ups[u].i < Len(ups[u].chunks))
  /\ ups' = [ups EXCEPT ![u] = [@ EXCEPT !.pc = "returned", !.result = ups[u].fileId]]
  /\ UNCHANGED store
  /\ UpUnchanged

\* the backoff timer of upload u fires
UpSleepDone(u) ==
  /\ ups[u].pc = "sleep"
  /\ ups' = [ups EXCEPT ![u] = [@ EXCEPT !.pc = "loop", !.attempt = @ + 1]]
  /\ UNCHANGED store
  /\ UpUnchanged

(* ===== an outer executeWithRetry around calls that retry themselves ===== *)
\* createTontineCircle, joinTontineCircle and makeTontineContribution pass
\* executeWithRetry an operation that awaits executeContractFunction, and
\* mintTokenSupply one that awaits transferTokens; both callees wrap their own
\* body in executeWithRetry.  The outer executor has its own loop variable;
\* the inner one is the executor modelled above, entered anew for every call.
TontineCalls == {"createTontineCircle", "joinTontineCircle", "makeTontineContribution"}

NestedCalls == TontineCalls \cup {"mintTokenSupply"}

\* the callee calls executeWithRetry(operation): maxRetries = 3, attempt = 1
InnerEnter ==
  /\ maxRetries' = DefaultMaxRetries /\ attempt' = 1 /\ pc' = "loop"
  /\ delays' = <<>> /\ outcome' = NoOutcome /\ invocations' = 0
  /\ opsInFlight' = 0 /\ trace' = <<>>

\* the catch block of the outer executeWithRetry
OuterCatch(error) ==
  IF oAttempt = DefaultMaxRetries
    THEN oPc' = "thrown" /\ oOutcome' = error
    ELSE oPc' = "sleep" /\ UNCHANGED oOutcome

\* the awaited callee rejected (its executor threw): the outer operation
\* rejects with the same error
OuterRethrow ==
  /\ call \in NestedCalls
  /\ oPc = "op" /\ pc = "thrown"
  /\ phase \in {"executeContractFunction", "queryContractFunction", "transferTokens"}
  /\ OuterCatch(outcome)
  /\ phase' = "none"
  /\ UNCHANGED <<oAttempt, txIssued, txApplied, amount, recipient>>
  /\ UNCHANGED <<call, envVars, upVars, costVars, hcsVars, splitVars, netVars>>
  /\ UNCHANGED <<retryVars, bodyVars, monVars>>

\* the setTimeout of the outer catch block fires; attempt++
OuterSleepDone ==
  /\ call \in NestedCalls
  /\ oPc = "sleep"
  /\ oPc' = "loop"
  /\ oAttempt' = oAttempt + 1
  /\ UNCHANGED <<oOutcome, phase, txIssued, txApplied, amount, recipient>>
  /\ UNCHANGED <<call, envVars, upVars, costVars, hcsVars, splitVars, netVars>>
  /\ UNCHANGED <<retryVars, bodyVars, monVars>>

(* --- the tontine functions --- *)
\* faulty variant: an attempt that follows a successful createTontine goes
\* straight to the query
TontineInvokeResumes ==
  /\ call \in TontineCalls
  /\ oPc = "loop" /\ oAttempt <= DefaultMaxRetries
  /\ oPc' = "op"
  /\ phase' = IF call = "createTontineCircle" /\ txApplied > 0
               THEN "queryContractFunction" ELSE "executeContractFunction"
  /\ InnerEnter
  /\ UNCHANGED <<oAttempt, oOutcome, txIssued, txApplied, amount, recipient>>
  /\ UNCHANGED <<call, envVars, upVars, costVars, hcsVars, splitVars, netVars>>
  /\ UNCHANGED <<bodyVars, monVars>>

\* outer loop test true: the operation runs to await this.executeContractFunction
TontineInvoke ==
  /\ call \in TontineCalls
  /\ oPc = "loop" /\ oAttempt <= DefaultMaxRetries
  /\ oPc' = "op"
  /\ phase' = "executeContractFunction"
  /\ InnerEnter
  /\ UNCHANGED <<oAttempt, oOutcome, txIssued, txApplied, amount, recipient>>
  /\ UNCHANGED <<call, envVars, upVars, costVars, hcsVars, splitVars, netVars>>
  /\ UNCHANGED <<bodyVars, monVars>>

\* executeContractFunction: estimateGas has resolved (it catches its own
\* errors) and contractExecuteTx.execute(this.client) is called
EcfExecuteIssue ==
  /\ call \in TontineCalls /\ phase = "executeContractFunction"
  /\ pc = "op" /\ bpc = "entry"
  /\ bpc' = "execute"
  /\ txIssued' = txIssued + 1
  /\ UNCHANGED <<oPc, oAttempt, oOutcome, phase, txApplied, amount, recipient>>
  /\ UNCHANGED <<call, envVars, upVars, costVars, hcsVars, splitVars, netVars>>
  /\ UNCHANGED <<retryVars, contentsLen, chunks, i, offset, fileId, monVars>>

EcfExecuteOk ==
  /\ call \in TontineCalls /\ phase = "executeContractFunction"
  /\ pc = "op" /\ bpc = "execute"
  /\ bpc' = "receipt"
  /\ UNCHANGED outerVars
  /\ UNCHANGED <<call, envVars, upVars, costVars, hcsVars, splitVars, netVars>>
  /\ UNCHANGED <<retryVars, contentsLen, chunks, i, offset, fileId, monVars>>

EcfExecuteFail ==
  /\ call \in TontineCalls /\ phase = "executeContractFunction"
  /\ pc = "op" /\ bpc = "execute"
  /\ RetryCatch(ErrorOf("contractExecute"))
  /\ bpc' = "idle"
  /\ UNCHANGED outerVars
  /\ UNCHANGED <<call, envVars, upVars, costVars, hcsVars, splitVars, netVars>>
  /\ UNCHANGED <<contentsLen, chunks, i, offset, fileId, monVars>>

\* getReceipt resolves: the transaction was applied; monitorTransaction is
\* entered
EcfReceiptOk ==
  /\ call \in TontineCalls /\ phase = "executeContractFunction"
  /\ pc = "op" /\ bpc = "receipt"
  /\ txApplied' = txApplied + 1
  /\ MonitorEnter
  /\ bpc' = "monitor"
  /\ UNCHANGED <<oPc, oAttempt, oOutcome, phase, txIssued, amount, recipient>>
  /\ UNCHANGED <<call, envVars, upVars, costVars, hcsVars, splitVars, netVars>>
  /\ UNCHANGED <<retryVars, contentsLen, chunks, i, offset, fileId>>

\* getReceipt rejects; the network may have applied the transaction all the
\* same
EcfReceiptFail ==
  /\ call \in TontineCalls /\ phase = "executeContractFunction"
  /\ pc = "op" /\ bpc = "receipt"
  /\ \E applied \in BOOLEAN :
       txApplied' = IF applied THEN txApplied + 1 ELSE txApplied
  /\ RetryCatch(ErrorOf("contractReceipt"))
  /\ bpc' = "idle"
  /\ UNCHANGED <<oPc, oAttempt, oOutcome, phase, txIssued, amount, recipient>>
  /\ UNCHANGED <<call, envVars, upVars, costVars, hcsVars, splitVars, netVars>>
  /\ UNCHANGED <<contentsLen, chunks, i, offset, fileId, monVars>>

\* monitorTransaction has returned: return {success: true, contractId, ...}
EcfReturn ==
  /\ call \in TontineCalls /\ phase = "executeContractFunction"
  /\ pc = "op" /\ bpc = "monitor" /\ monPc = "done"
  /\ RetryResolve(ValueOf("executeContractFunction", 0))
  /\ bpc' = "idle"
  /\ UNCHANGED outerVars
  /\ UNCHANGED <<call, envVars, upVars, costVars, hcsVars, splitVars, netVars>>
  /\ UNCHANGED <<contentsLen, chunks, i, offset, fileId, monVars>>

\* executeContractFunction has returned to the outer operation:
\* createTontineCircle goes on to await this.queryContractFunction, the other
\* two return the result
TontineExecuted ==
  /\ call \in TontineCalls /\ phase = "executeContractFunction"
  /\ oPc = "op" /\ pc = "returned"
  /\ IF call = "createTontineCircle"
       THEN /\ phase' = "queryContractFunction"
            /\ InnerEnter
            /\ UNCHANGED <<oPc, oOutcome>>
       ELSE /\ phase' = "none"
            /\ oPc' = "returned"
            /\ oOutcome' = outcome
            /\ UNCHANGED retryVars
  /\ UNCHANGED <<oAttempt, txIssued, txApplied, amount, recipient>>
  /\ UNCHANGED <<call, envVars, upVars, costVars, hcsVars, splitVars, netVars>>
  /\ UNCHANGED <<bodyVars, monVars>>

\* queryContractFunction: contractQuery.execute resolves
QueryOk ==
  /\ call = "createTontineCircle" /\ phase = "queryContractFunction"
  /\ pc = "op" /\ bpc = "entry"
  /\ RetryResolve(ValueOf("queryContractFunction", 0))
  /\ bpc' = "idle"
  /\ UNCHANGED outerVars
  /\ UNCHANGED <<call, envVars, upVars, costVars, hcsVars, splitVars, netVars>>
  /\ UNCHANGED <<contentsLen, chunks, i, offset, fileId, monVars>>

\* contractQuery.execute rejects
QueryFail ==
  /\ call = "createTontineCircle" /\ phase = "queryContractFunction"
  /\ pc = "op" /\ bpc = "entry"
  /\ RetryCatch(ErrorOf("contractQuery"))
  /\ bpc' = "idle"
  /\ UNCHANGED outerVars
  /\ UNCHANGED <<call, envVars, upVars, costVars, hcsVars, splitVars, netVars>>
  /\ UNCHANGED <<contentsLen, chunks, i, offset, fileId, monVars>>

\* queryContractFunction has returned: queryResult.getAddress(0) either
\* yields the address, and the result is returned, or throws on a result
\* that holds no address
TontineQueried ==
  /\ call = "createTontineCircle" /\ phase = "queryContractFunction"
  /\ oPc = "op" /\ pc = "returned"
  /\ \E hasAddress \in BOOLEAN :
       IF hasAddress
         THEN /\ oPc' = "returned"
              /\ oOutcome' = ValueOf("createTontineCircle", 0)
         ELSE OuterCatch(ErrorOf("getAddress"))
  /\ phase' = "none"
  /\ UNCHANGED <<oAttempt, txIssued, txApplied, amount, recipient>>
  /\ UNCHANGED <<call, envVars, upVars, costVars, hcsVars, splitVars, netVars>>
  /\ UNCHANGED <<retryVars, bodyVars, monVars>>

(* --- HederaTokenService.mintTokenSupply --- *)
\* what mintTokenSupply resolves with: {success: true, tokenId, amountMinted: amount, ...}
MintResult ==
  [kind |-> "value", by |-> oAttempt, src |-> "mintTokenSupply", file |-> 0,
   amountMinted |-> amount]

\* outer loop test true: TokenMintTransaction()...execute(this.client) is called
MintInvoke ==
  /\ call = "mintTokenSupply"
  /\ oPc = "loop" /\ oAttempt <= DefaultMaxRetries
  /\ oPc' = "op"
  /\ phase' = "mintExecute"
  /\ txIssued' = txIssued + 1
  /\ UNCHANGED <<oAttempt, oOutcome, txApplied, amount, recipient>>
  /\ UNCHANGED <<call, envVars, upVars, costVars, hcsVars, splitVars, netVars>>
  /\ UNCHANGED <<retryVars, bodyVars, monVars>>

\* execute resolves: mintTx.getReceipt(this.client) is called
MintExecuteOk ==
  /\ call = "mintTokenSupply" /\ oPc = "op" /\ phase = "mintExecute"
  /\ phase' = "mintReceipt"
  /\ UNCHANGED <<oPc, oAttempt, oOutcome, txIssued, txApplied, amount, recipient>>
  /\ UNCHANGED <<call, envVars, upVars, costVars, hcsVars, splitVars, netVars>>
  /\ UNCHANGED <<retryVars, bodyVars, monVars>>

MintExecuteFail ==
  /\ call = "mintTokenSupply" /\ oPc = "op" /\ phase = "mintExecute"
  /\ OuterCatch(ErrorOf("mintExecute"))
  /\ phase' = "none"
  /\ UNCHANGED <<oAttempt, txIssued, txApplied, amount, recipient>>
  /\ UNCHANGED <<call, envVars, upVars, costVars, hcsVars, splitVars, netVars>>
  /\ UNCHANGED <<retryVars, bodyVars, monVars>>

\* the receipt resolves: the supply has grown by amount.  With a recipient
\* the operation goes on to await this.transferTokens, else it returns
MintReceiptOk ==
  /\ call = "mintTokenSupply" /\ oPc = "op" /\ phase = "mintReceipt"
  /\ txApplied' = txApplied + 1
  /\ IF recipient
       THEN /\ phase' = "transferTokens"
            /\ InnerEnter
            /\ UNCHANGED <<oPc, oOutcome>>
       ELSE /\ phase' = "none"
            /\ oPc' = "returned"
            /\ oOutcome' = MintResult
            /\ UNCHANGED retryVars
  /\ UNCHANGED <<oAttempt, txIssued, amount, recipient>>
  /\ UNCHANGED <<call, envVars, upVars, costVars, hcsVars, splitVars, netVars>>
  /\ UNCHANGED <<bodyVars, monVars>>

\* the receipt rejects; the network may have minted all the same
MintReceiptFail ==
  /\ call = "mintTokenSupply" /\ oPc = "op" /\ phase = "mintReceipt"
  /\ \E applied \in BOOLEAN :
       txApplied' = IF applied THEN txApplied + 1 ELSE txApplied
  /\ OuterCatch(ErrorOf("mintReceipt"))
  /\ phase' = "none"
  /\ UNCHANGED <<oAttempt, txIssued, amount, recipient>>
  /\ UNCHANGED <<call, envVars, upVars, costVars, hcsVars, splitVars, netVars>>
  /\ UNCHANGED <<retryVars, bodyVars, monVars>>

\* transferTokens: freezeWith and sign have resolved, signTx.execute is called
TransferIssue ==
  /\ call = "mintTokenSupply" /\ phase = "transferTokens"
  /\ pc = "op" /\ bpc = "entry"
  /\ bpc' = "execute"
  /\ UNCHANGED outerVars
  /\ UNCHANGED <<call, envVars, upVars, costVars, hcsVars, splitVars, netVars>>
  /\ UNCHANGED <<retryVars, contentsLen, chunks, i, offset, fileId, monVars>>

TransferExecuteOk ==
  /\ call = "mintTokenSupply" /\ phase = "transferTokens"
  /\ pc = "op" /\ bpc = "execute"
  /\ bpc' = "receipt"
  /\ UNCHANGED outerVars
  /\ UNCHANGED <<call, envVars, upVars, costVars, hcsVars, splitVars, netVars>>
  /\ UNCHANGED <<retryVars, contentsLen, chunks, i, offset, fileId, monVars>>

TransferExecuteFail ==
  /\ call = "mintTokenSupply" /\ phase = "transferTokens"
  /\ pc = "op" /\ bpc = "execute"
  /\ RetryCatch(ErrorOf("transferExecute"))
  /\ bpc' = "idle"
  /\ UNCHANGED outerVars
  /\ UNCHANGED <<call, envVars, upVars, costVars, hcsVars, splitVars, netVars>>
  /\ UNCHANGED <<contentsLen, chunks, i, offset, fileId, monVars>>

\* the receipt resolves; recordTokenTransfer logs; monitorTransaction is entered
TransferReceiptOk ==
  /\ call = "mintTokenSupply" /\ phase = "transferTokens"
  /\ pc = "op" /\ bpc = "receipt"
  /\ MonitorEnter
  /\ bpc' = "monitor"
  /\ UNCHANGED outerVars
  /\ UNCHANGED <<call, envVars, upVars, costVars, hcsVars, splitVars, netVars>>
  /\ UNCHANGED <<retryVars, contentsLen, chunks, i, offset, fileId>>

TransferReceiptFail ==
  /\ call = "mintTokenSupply" /\ phase = "transferTokens"
  /\ pc = "op" /\ bpc = "receipt"
  /\ RetryCatch(ErrorOf("transferReceipt"))
  /\ bpc' = "idle"
  /\ UNCHANGED outerVars
  /\ UNCHANGED <<call, envVars, upVars, costVars, hcsVars, splitVars, netVars>>
  /\ UNCHANGED <<contentsLen, chunks, i, offset, fileId, monVars>>

\* monitorTransaction has returned: return {success: true, transactionId, ...}
TransferReturn ==
  /\ call = "mintTokenSupply" /\ phase = "transferTokens"
  /\ pc = "op" /\ bpc = "monitor" /\ monPc = "done"
  /\ RetryResolve(ValueOf("transferTokens", 0))
  /\ bpc' = "idle"
  /\ UNCHANGED outerVars
  /\ UNCHANGED <<call, envVars, upVars, costVars, hcsVars, splitVars, netVars>>
  /\ UNCHANGED <<contentsLen, chunks, i, offset, fileId, monVars>>

\* transferTokens has returned to the outer operation: return {..., amountMinted: amount}
MintTransferred ==
  /\ call = "mintTokenSupply" /\ phase = "transferTokens"
  /\ oPc = "op" /\ pc = "returned"
  /\ phase' = "none"
  /\ oPc' = "returned"
  /\ oOutcome' = MintResult
  /\ UNCHANGED <<oAttempt, txIssued, txApplied, amount, recipient>>
  /\ UNCHANGED <<call, envVars, upVars, costVars, hcsVars, splitVars, netVars>>
  /\ UNCHANGED <<retryVars, bodyVars, monVars>>

(* ============================== Init =================================== *)
InitRetryIdle ==
  /\ maxRetries = 0 /\ attempt = 0 /\ pc = "idle" /\ delays = <<>>
  /\ outcome = NoOutcome /\ invocations = 0 /\ opsInFlight = 0 /\ trace = <<>>

InitRetry(m) ==
  /\ maxRetries = m /\ attempt = 1 /\ pc = "loop" /\ delays = <<>>
  /\ outcome = NoOutcome /\ invocations = 0 /\ opsInFlight = 0 /\ trace = <<>>

InitBody(len) ==
  /\ bpc = "idle" /\ contentsLen = len /\ chunks = <<>> /\ i = 0 /\ offset = 0
  /\ fileId = 0

InitNet ==
  /\ calls = <<>> /\ netInFlight = 0 /\ files = <<>> /\ metadata = {}
  /\ contracts = <<>>

InitMonIdle ==
  /\ monPc = "idle" /\ poll = 0 /\ reads = 0 /\ sleeps = 0 /\ lastRead = "none"
  /\ notFound = 0
  /\ monState = "Submitted" /\ monRet = "pending" /\ warned = FALSE

InitMonRunning ==
  /\ monPc = "loop" /\ poll = 0 /\ reads = 0 /\ sleeps = 0 /\ lastRead = "none"
  /\ notFound = 0
  /\ monState = "Submitted" /\ monRet = "pending" /\ warned = FALSE

InitSplitIdle == payload = <<>> /\ segment = 0 /\ byteChunks = <<>>

\* the values a byte takes in the small payloads
Bytes == {0, 1}

\* every payload of at most MaxPayloadLen bytes
SmallPayloads == UNION {[1..len -> Bytes] : len \in 0..MaxPayloadLen}

\* a payload of len bytes whose segments all differ
PatternPayload(len) == [j \in 1..len |-> (j * j) % 251]

\* a split loop is entered with payload p and step n
InitSplit(c, p, n) ==
  /\ call = c
  /\ payload = p /\ segment = n /\ byteChunks = <<>>
  /\ bpc = (IF c = "splitContents" THEN "splitLoop" ELSE "splitFirst")
  /\ contentsLen = Len(p) /\ chunks = <<>> /\ i = 0 /\ offset = 0 /\ fileId = 0

\* payload lengths: around every segment boundary up to MaxChunks segments
PayloadLens(n) == {k * n + r : k \in 0..(MaxChunks - 1), r \in {1, n - 1, n}}

InitCall ==
  \/ /\ call = "createFile"
     /\ InitRetry(DefaultMaxRetries)
     /\ \E len \in PayloadLens(chunkSize) \cup {10000} : InitBody(len)
     /\ InitNet /\ InitMonIdle /\ InitSplitIdle /\ InitEnvNone /\ InitHcsIdle /\ InitCostIdle
  \/ /\ call = "deployLargeContract"
     /\ InitRetry(DefaultMaxRetries)
     /\ \E len \in PayloadLens(bytecodeChunk) \cup {0} : InitBody(len)
     /\ InitNet /\ InitMonIdle /\ InitSplitIdle /\ InitEnvNone /\ InitHcsIdle /\ InitCostIdle
  \/ /\ \E c \in {"splitContents", "splitBytecode"} :
          \/ \E p \in SmallPayloads, n \in 1..MaxSegment : InitSplit(c, p, n)
          \/ \E len \in PayloadLens(chunkSize) \cup {10000} :
                InitSplit(c, PatternPayload(len), chunkSize)
          \/ \E len \in PayloadLens(bytecodeChunk) :
                InitSplit(c, PatternPayload(len), bytecodeChunk)
     /\ InitRetryIdle /\ InitNet /\ InitMonIdle /\ InitEnvNone /\ InitHcsIdle /\ InitCostIdle
  \/ /\ call = "executeWithRetry"
     /\ \E m \in (0 - 1)..MaxRetriesBound : InitRetry(m)
     /\ InitBody(0) /\ InitNet /\ InitMonIdle /\ InitSplitIdle
     /\ cancelled = FALSE /\ deadline \in Deadlines /\ InitHcsIdle /\ InitCostIdle
  \/ /\ call = "monitorTransaction"
     /\ InitRetryIdle /\ InitBody(0) /\ InitNet /\ InitMonRunning /\ InitSplitIdle
     /\ cancelled = FALSE /\ deadline \in Deadlines /\ InitHcsIdle /\ InitCostIdle
  \/ /\ \E c \in HcsCalls \ {"submitMessage"} : InitLogger(c)
     /\ InitRetryIdle /\ InitBody(0) /\ InitNet /\ InitMonIdle /\ InitSplitIdle
     /\ InitEnvNone /\ InitCostIdle
  \/ /\ InitSubmit
     /\ InitRetry(DefaultMaxRetries)
     /\ InitBody(0) /\ InitNet /\ InitMonIdle /\ InitSplitIdle /\ InitEnvNone
     /\ InitCostIdle
  \/ /\ call = "calculateDailyCosts"
     /\ \E c \in CountInputs :
          htsCount = c[1] /\ hcsCount = c[2] /\ hscsCount = c[3]
     /\ costs = NoCosts
     /\ InitRetryIdle /\ InitBody(0) /\ InitNet /\ InitMonIdle /\ InitSplitIdle
     /\ InitEnvNone /\ InitHcsIdle

Init == InitCall /\ InitUploadsIdle /\ InitOuterIdle

Next ==
  \/ RetryInvoke
  \/ RetryExhausted
  \/ RetrySleepDone
  \/ OperationResolve
  \/ OperationReject
  \/ MonitorFetch
  \/ \E r \in ReadOutcomes : MonitorResponse(r)
  \/ MonitorSleepDone
  \/ MonitorGiveUp
  \/ CreateFileBegin
  \/ CreateFileCreateOk
  \/ CreateFileCreateFail
  \/ CreateFileReceiptOk
  \/ CreateFileReceiptFail
  \/ CreateFileAppendIssue
  \/ CreateFileAppendOk
  \/ CreateFileAppendFail
  \/ CreateFileStore
  \/ CreateFileMonitor
  \/ CreateFileReturn
  \/ DeployBegin
  \/ DeployCreateOk
  \/ DeployCreateFail
  \/ DeployReceiptOk
  \/ DeployReceiptFail
  \/ DeployAppendIssue
  \/ DeployAppendOk
  \/ DeployAppendFail
  \/ DeployContractIssue
  \/ DeployContractOk
  \/ DeployContractFail
  \/ DeployContractReceiptOk
  \/ DeployContractReceiptFail
  \/ DeployReturn
  \/ SplitPush
  \/ SplitEnd
  \/ BytecodeSliceFirst
  \/ BytecodeSliceNext
  \/ BytecodeSliceEnd
  \/ LogTransaction
  \/ LogTontineActivity
  \/ LogComplianceEvent
  \/ LogSecurityEvent
  \/ SubmitMissingKey
  \/ SubmitEncryptFail
  \/ SubmitIssue
  \/ SubmitExecOk
  \/ SubmitExecFail
  \/ SubmitReceiptOk
  \/ SubmitReceiptFail
  \/ SubmitReturn
  \/ calculateDailyCosts
  \/ Cancel

Spec == Init /\ [][Next]_vars

\* two createFile calls on one service object, interleaved in any order
InitTwoUploads ==
  /\ call = "twoUploads"
  /\ InitRetryIdle /\ InitBody(0) /\ InitNet /\ InitMonIdle /\ InitSplitIdle
  /\ InitEnvNone /\ InitHcsIdle /\ InitCostIdle /\ InitOuterIdle
  /\ InitUploads

NextTwoUploads ==
  \E u \in Uploads :
    \/ UpBegin(u)
    \/ UpCreateOk(u)
    \/ UpCreateFail(u)
    \/ UpReceiptOk(u)
    \/ UpReceiptFail(u)
    \/ UpAppendIssue(u)
    \/ UpAppendOk(u)
    \/ UpAppendFail(u)
    \/ UpReturn(u)
    \/ UpSleepDone(u)

SpecTwoUploads == InitTwoUploads /\ [][NextTwoUploads]_vars

\* monitorTransaction called on its own, with every read settling and every
\* timer firing
InitMonitor == Init /\ call = "monitorTransaction"

NextMonitor ==
  \/ MonitorFetch
  \/ \E r \in ReadOutcomes : MonitorResponse(r)
  \/ MonitorSleepDone
  \/ MonitorGiveUp
  \/ Cancel

SpecMonitor ==
  /\ InitMonitor
  /\ [][NextMonitor]_vars
  /\ WF_vars(MonitorFetch)
  /\ WF_vars(\E r \in ReadOutcomes : MonitorResponse(r))
  /\ WF_vars(MonitorSleepDone)
  /\ WF_vars(MonitorGiveUp)

\* a tontine function or mintTokenSupply called on its own
InitNested ==
  /\ call \in NestedCalls
  /\ oPc = "loop" /\ oAttempt = 1 /\ oOutcome = NoOutcome /\ phase = "none"
  /\ txIssued = 0 /\ txApplied = 0
  /\ IF call = "mintTokenSupply"
       THEN amount \in 1..MaxAmount /\ recipient \in BOOLEAN
       ELSE amount = 0 /\ recipient = FALSE
  /\ InitRetryIdle /\ InitBody(0) /\ InitNet /\ InitMonIdle /\ InitSplitIdle
  /\ InitEnvNone /\ InitHcsIdle /\ InitCostIdle /\ InitUploadsIdle

\* the inner executor always runs with maxRetries = 3 and attempt >= 1, so the
\* fall-through below its loop (RetryExhausted) cannot be reached here
NextNested ==
  \/ TontineInvoke
  \/ RetryInvoke
  \/ RetrySleepDone
  \/ EcfExecuteIssue
  \/ EcfExecuteOk
  \/ EcfExecuteFail
  \/ EcfReceiptOk
  \/ EcfReceiptFail
  \/ EcfReturn
  \/ MonitorFetch
  \/ \E r \in ReadOutcomes : MonitorResponse(r)
  \/ MonitorSleepDone
  \/ MonitorGiveUp
  \/ TontineExecuted
  \/ QueryOk
  \/ QueryFail
  \/ TontineQueried
  \/ OuterRethrow
  \/ OuterSleepDone
  \/ MintInvoke
  \/ MintExecuteOk
  \/ MintExecuteFail
  \/ MintReceiptOk
  \/ MintReceiptFail
  \/ TransferIssue
  \/ TransferExecuteOk
  \/ TransferExecuteFail
  \/ TransferReceiptOk
  \/ TransferReceiptFail
  \/ TransferReturn
  \/ MintTransferred

SpecNested == InitNested /\ [][NextNested]_vars

(* ============================ properties =============================== *)
\* number of invocations of the operation that have failed so far
NumFails == Cardinality({j \in DOMAIN trace : trace[j][1] = "fail"})

\* executeWithRetry has settled
Finished == pc \in {"returned", "thrown"}

\* the calls issued by invocation a of the operation, in issue order
AttemptCalls(a) == SelectSeq(calls, LAMBDA c : c.attempt = a)

\* ceil(len / n)
NumChunks(len, n) == (len + n - 1) \div n

Appends == {j \in DOMAIN calls : calls[j].op = "append"}
Creates == {j \in DOMAIN calls : calls[j].op = "create"}

\* C1: for maxRetries >= 1, when every invocation of the operation has
\* failed, executeWithRetry has invoked it exactly maxRetries times and throws
\* the error raised by the last invocation, not an earlier one and not the
\* generic 'Max retries exceeded' error.
C1_AllFailThrowsLastError ==
  (Finished /\ maxRetries >= 1 /\ NumFails = invocations) =>
     /\ pc = "thrown"
     /\ invocations = maxRetries
     /\ outcome.kind = "error"
     /\ outcome.by = maxRetries
     /\ outcome # MaxRetriesExceeded

C1_Witness ==
  /\ call = "executeWithRetry" /\ pc = "thrown" /\ maxRetries = 4
  /\ NumFails = 4 /\ outcome.by = 4

\* C2: once an invocation has succeeded after k failures (k < maxRetries),
\* executeWithRetry has returned that invocation's value, the operation was
\* invoked exactly k + 1 times, exactly k delays were performed, and nothing
\* is invoked after the success.
C2_SuccessAfterKFailures ==
  (\E j \in DOMAIN trace : trace[j][1] = "ok") =>
     /\ pc = "returned"
     /\ trace[Len(trace)][1] = "ok"
     /\ NumFails < maxRetries
     /\ invocations = NumFails + 1
     /\ Len(delays) = NumFails
     /\ outcome.kind = "value"
     /\ outcome.by = NumFails + 1

C2_Witness ==
  /\ call = "executeWithRetry" /\ pc = "returned" /\ NumFails = 2
  /\ invocations = 3 /\ Len(delays) = 2

\* C3: in createFile every invocation of the upload issues first one create
\* call carrying chunk 0 and then one append call per following chunk, in
\* ascending index order, each carrying bytes [j*6144, min((j+1)*6144, L)),
\* each append targeting the FileId the create of that invocation produced and
\* issued only after the previous call has resolved; at most one call is in
\* flight; an upload that returns without any failure has issued exactly one
\* create and ceil(L/6144) - 1 appends.
C3_CreateThenAppendsInOrder ==
  call = "createFile" =>
     /\ netInFlight <= 1
     /\ \A a \in 1..maxRetries :
          LET s == AttemptCalls(a) IN
            /\ Len(s) <= NumChunks(contentsLen, chunkSize)
            /\ \A j \in 1..Len(s) :
                 /\ s[j].op = IF j = 1 THEN "create" ELSE "append"
                 /\ s[j].index = j - 1
                 /\ s[j].range = <<(j - 1) * chunkSize, Min(j * chunkSize, contentsLen)>>
                 /\ j > 1 => /\ s[j - 1].status = "ok"
                             /\ s[1].file # 0
                             /\ s[j].file = s[1].file
     /\ pc = "returned" =>
          /\ Len(AttemptCalls(attempt)) = NumChunks(contentsLen, chunkSize)
          /\ \A j \in DOMAIN calls : calls[j].attempt = attempt => calls[j].status = "ok"
     /\ (pc = "returned" /\ NumFails = 0) =>
          Len(calls) = NumChunks(contentsLen, chunkSize)

C3_Witness ==
  /\ call = "createFile" /\ pc = "returned" /\ contentsLen = 10000
  /\ NumFails = 0 /\ Len(calls) = 2
  /\ calls[1].op = "create" /\ calls[2].op = "append"

\* C4 (as claimed): once the append call for chunk k has failed, no further
\* create call is issued and no chunk below k is submitted again.
C4_OnlyFailedChunkRetried ==
  call = "createFile" =>
     \A j \in Appends : \A m \in DOMAIN calls :
        (calls[j].status = "failed" /\ m > j) =>
           /\ calls[m].op # "create"
           /\ calls[m].index >= calls[j].index

\* C5: in createFile and deployLargeContract an append is only ever issued
\* after the create of the same invocation has succeeded; when the create has
\* failed in every attempt the call throws the create's error and the log
\* holds no append.
C5_NoAppendWithoutCreate ==
  call \in {"createFile", "deployLargeContract"} =>
     /\ \A j \in Appends : \E k \in Creates :
          /\ k < j
          /\ calls[k].attempt = calls[j].attempt
          /\ calls[k].status = "ok"
     /\ (Finished /\ \A k \in Creates : calls[k].status = "failed") =>
          /\ pc = "thrown"
          /\ outcome.kind = "error"
          /\ outcome.src \in {"create", "createReceipt"}
          /\ Cardinality(Creates) = maxRetries
          /\ Appends = {}

C5_Witness ==
  /\ call = "createFile" /\ pc = "thrown" /\ contentsLen = 10000
  /\ Len(calls) = 3
  /\ \A k \in DOMAIN calls : calls[k].op = "create" /\ calls[k].status = "failed"

\* C6: when the first m reads (m < 10) found no confirmed record and read
\* m + 1 found one, monitorTransaction has stopped in Confirmed after exactly
\* m + 1 reads, and reads nothing afterwards.
C6_ConfirmedAfterMPlusOneReads ==
  lastRead = "confirmed" =>
     /\ monPc = "done"
     /\ monState = "Confirmed"
     /\ notFound < maxPolls
     /\ reads = notFound + 1

C6_Witness ==
  /\ call = "monitorTransaction" /\ monPc = "done" /\ monState = "Confirmed"
  /\ notFound = 9 /\ reads = 10

\* C7: when no read yields a confirmed record, monitorTransaction performs
\* exactly 10 reads, logs the warning and returns normally in TimedOut; it
\* never delivers an error to its caller.
C7_TimedOutAfterMaxPolls ==
  /\ monRet \in {"pending", "undefined"}
  /\ (monPc = "done" /\ lastRead # "confirmed") =>
        /\ reads = 10
        /\ notFound = 10
        /\ monState = "TimedOut"
        /\ warned
        /\ monRet = "undefined"

C7_Witness ==
  /\ call = "monitorTransaction" /\ monPc = "done" /\ monState = "TimedOut"
  /\ reads = 10 /\ warned

\* C8 (as claimed): the value monitorTransaction hands back in TimedOut
\* differs from the value it hands back in Confirmed.
C8_ResultDistinguishesTimedOut ==
  (monPc = "done" /\ monState = "TimedOut") => monRet # ReturnAtConfirmed

\* C9: the invocations of one executeWithRetry call are strictly sequential:
\* invocation k + 1 starts only after invocation k was seen to fail and the
\* delay after attempt k has started and elapsed; never are two invocations
\* in flight.
C9_AttemptsSequential ==
  /\ opsInFlight <= 1
  /\ \A j \in DOMAIN trace :
       trace[j][1] = "invoke" =>
          IF trace[j][2] = 1
            THEN j = 1
            ELSE /\ j >= 5
                 /\ trace[j - 4] = <<"invoke", trace[j][2] - 1>>
                 /\ trace[j - 3] = <<"fail", trace[j][2] - 1>>
                 /\ trace[j - 2] = <<"sleepStart", trace[j][2] - 1>>
                 /\ trace[j - 1] = <<"sleepEnd", trace[j][2] - 1>>

C9_Witness ==
  /\ call = "executeWithRetry" /\ pc = "op" /\ invocations = 3
  /\ opsInFlight = 1 /\ NumFails = 2

\* C10: the k-th delay, waited after failed attempt k, is 1000 * 2^k ms:
\* 2000, 4000, 8000, ...; the delays never decrease.
C10_ExponentialBackoff ==
  /\ \A k \in DOMAIN delays : delays[k] = 1000 * (2 ^ k)
  /\ Len(delays) >= 1 => delays[1] = 2000
  /\ Len(delays) >= 2 => delays[2] = 4000
  /\ Len(delays) >= 3 => delays[3] = 8000
  /\ \A k \in DOMAIN delays : k > 1 => delays[k - 1] <= delays[k]
  /\ Len(delays) < maxRetries \/ maxRetries <= 0

C10_Witness ==
  /\ call = "executeWithRetry" /\ Len(delays) = 3 /\ delays[3] = 8000
  /\ maxRetries = 4

\* the bytes of payload that the byte range r = <<lo, hi>> stands for
BytesOf(r) == SubSeq(payload, r[1] + 1, r[2])

\* C11: when a split loop has ended, concatenating the slices it produced,
\* in ascending index order, gives back exactly the payload, for every
\* payload and every segment size n > 0, the 6144-byte loop of createFile and
\* the 4096-byte loop of deployLargeContract included.
C11_ReassembleSplitIsPayload ==
  (call \in {"splitContents", "splitBytecode"} /\ bpc = "splitDone") =>
     Reassemble(byteChunks) = payload

C11_Witness ==
  /\ call = "splitContents" /\ bpc = "splitDone" /\ segment = chunkSize
  /\ Len(payload) = 10000 /\ Len(byteChunks) = 2

\* C12: chunk j (counted from 0) of a finished split holds exactly the bytes
\* [j*n, min((j+1)*n, L)) of the payload: there are ceil(L/n) chunks, every
\* chunk but the last has n bytes and the last has L mod n bytes, or n when
\* that is 0 (10000 bytes with n = 6144: 6144 and 3856 bytes).  The byte
\* ranges createFile works with are these same chunks.
C12_ChunkCoversItsRange ==
  (call \in {"splitContents", "splitBytecode"} /\ bpc = "splitDone"
     /\ Len(payload) > 0) =>
     LET L == Len(payload)
         n == segment
         k == Len(byteChunks)
     IN /\ k = (L + n - 1) \div n
        /\ \A j \in 1..k :
             /\ \A b \in 1..Len(byteChunks[j]) :
                  byteChunks[j][b] = payload[(j - 1) * n + b]
             /\ j < k => Len(byteChunks[j]) = n
             /\ j = k => Len(byteChunks[j]) = (IF L % n = 0 THEN n ELSE L % n)
        /\ (L = 10000 /\ n = 6144) =>
             (Len(byteChunks[1]) = 6144 /\ Len(byteChunks[2]) = 3856)
        /\ call = "splitContents" =>
             byteChunks = [j \in 1..Len(Split(L, n)) |-> BytesOf(Split(L, n)[j])]

C12_Witness ==
  /\ call = "splitContents" /\ bpc = "splitDone" /\ segment = 6144
  /\ Len(payload) = 10000
  /\ Len(byteChunks[1]) = 6144 /\ Len(byteChunks[2]) = 3856

\* C13: whenever createFile has returned a result, whatever calls failed and
\* were retried before, the network file named by the returned fileId holds
\* the chunks 0 .. ceil(L/6144) - 1 once each and in order, so its content is
\* the original payload byte for byte.
C13_ReturnedFileHoldsPayload ==
  (call = "createFile" /\ pc = "returned") =>
     LET f == outcome.file
         p == PatternPayload(contentsLen)
     IN /\ f \in DOMAIN files
        /\ Len(files[f]) = NumChunks(contentsLen, chunkSize)
        /\ \A j \in DOMAIN files[f] :
             files[f][j] = <<(j - 1) * chunkSize, Min(j * chunkSize, contentsLen)>>
        /\ Reassemble([j \in DOMAIN files[f] |->
                         SubSeq(p, files[f][j][1] + 1, files[f][j][2])]) = p

C13_Witness ==
  /\ call = "createFile" /\ pc = "returned" /\ contentsLen = 10000
  /\ NumFails = 2 /\ outcome.file = 3 /\ Len(files) = 3
  /\ Len(files[1]) = 2 /\ calls[2].status = "failed"

RECURSIVE SumSeq(_)
SumSeq(q) == IF q = <<>> THEN 0 ELSE Head(q) + SumSeq(Tail(q))

\* C14 (as claimed): once the cancellation signal has been raised during the
\* inter-attempt delay or the inter-poll delay, no further attempt and no
\* further poll is started.
C14_NoAttemptAfterCancel ==
  [][cancelled => (invocations' = invocations /\ reads' = reads)]_vars

\* C15 (as claimed): the retry loop and the polling loop stop as soon as the
\* caller's overall deadline is reached, even when attempts or polls remain:
\* no attempt and no poll starts once the time waited has reached the deadline.
C15_LoopStopsAtDeadline ==
  deadline > 0 =>
     /\ pc = "op" => SumSeq(delays) < deadline
     /\ monPc = "fetch" => sleeps * pollIntervalMs < deadline

\* the loggers that pass encrypt = true
ConfidentialLoggers == {"logComplianceEvent", "logSecurityEvent"}

\* the entry the logger called builds from its argument
EntryOf(c) ==
  CASE c = "logTransaction" -> TransactionLog(input)
    [] c = "logTontineActivity" -> TontineActivity(input)
    [] c = "logComplianceEvent" -> ComplianceEvent(input)
    [] c = "logSecurityEvent" -> SecurityEvent(input)

\* C16: every message a confidential logger hands to submitTx.execute, on the
\* first attempt and on every retry, is encryptMessage applied to the
\* serialized entry with the iv drawn in that attempt; the serialized
\* plaintext entry is never submitted.
C16_ConfidentialAlwaysEncrypted ==
  call \in ConfidentialLoggers =>
    /\ Len(submitted) <= Len(ivs)
    /\ \A j \in DOMAIN submitted :
         /\ submitted[j].msg.form = "iv:authTag:encrypted"
         /\ submitted[j].msg # JsonStringify(EntryOf(call))
         /\ submitted[j].msg.iv \in Nonces
         /\ submitted[j].msg =
              encryptMessage(JsonStringify(EntryOf(call)), submitted[j].msg.iv)
         /\ submitted[j].attempt = j

\* a confidential logger has returned after two failed submissions: three
\* attempts have each handed a message to the network
C16_Witness ==
  /\ call = "logSecurityEvent" /\ pc = "returned"
  /\ Len(submitted) = 3 /\ submitted[1].status = "failed"
  /\ submitted[3].attempt = 3 /\ submitted[3].status = "ok"

\* C17: when submitMessage runs with encrypt = true and no key is configured,
\* no message is ever handed to submitTx.execute, encrypted or plain, the call
\* never returns a result, and when it settles it has thrown the missing-key
\* error.
C17_MissingKeyNothingSubmitted ==
  (call \in HcsCalls /\ encrypt /\ hcsKey = "missing") =>
    /\ submitted = <<>>
    /\ netInFlight = 0
    /\ ivs = <<>>
    /\ pc # "returned"
    /\ pc = "thrown" => (outcome.kind = "error" /\ outcome.src = "missingKey")

\* submitMessage(topic, message, true) without a key has thrown
C17_Witness ==
  /\ call = "submitMessage" /\ encrypt /\ hcsKey = "missing"
  /\ pc = "thrown" /\ outcome.src = "missingKey" /\ invocations >= 1

\* the identity-bearing properties of the argument of each logger
IdentityFields(c) ==
  CASE c = "logTransaction" -> {"userId", "recipientId"}
    [] c = "logTontineActivity" -> {"userId"}
    [] c = "logComplianceEvent" -> {"userId"}
    [] c = "logSecurityEvent" -> {"userId", "ipAddress"}

\* the first 16 hex characters of the SHA-256 of v
DigestOf(v) == SubSeq(Sha256Hex(v), 1, 16)

\* C18: in every entry a logger submits, encrypted or not, each of userId,
\* recipientId and ipAddress holds the digest of the supplied value, or null
\* when no value (or the empty string) was supplied; it never holds the
\* supplied value itself.
C18_IdentityFieldsPseudonymized ==
  call \in HcsCalls \ {"submitMessage"} =>
    \A j \in DOMAIN submitted : \A f \in IdentityFields(call) :
       LET v == input[f]
           x == submitted[j].msg.body[f]
       IN /\ \/ x = Null /\ ~Truthy(v)
             \/ v # Undefined /\ x = DigestOf(v)
          /\ x # v
          /\ Truthy(v) => x = DigestOf(v)

\* logSecurityEvent with a userId and an ipAddress has submitted its entry,
\* and so has logTransaction with an empty recipientId
C18_Witness ==
  \/ /\ call = "logSecurityEvent" /\ pc = "returned"
     /\ input.userId = UserA /\ input.ipAddress = IpA
     /\ Len(submitted) >= 1
  \/ /\ call = "logTransaction" /\ pc = "returned"
     /\ input.recipientId = EmptyString /\ Len(submitted) >= 1

\* the kind the specification gives the failure that step src stands for
SpecifiedKind(src) ==
  CASE src \in {"missingKey", "topicNotInitialized", "encrypt"} ->
         "configuration-invalid"
    [] src \in {"append"} -> "chunk-sequence-fatal"
    [] OTHER -> "transient-exhausted"

\* C19 (as claimed): the error a caller receives names its kind, so that a
\* transient failure that exhausted the retries, a fatal chunk-sequence
\* failure and an invalid configuration can be told apart.
C19_ErrorKindsDistinguishable ==
  (pc = "thrown" /\ outcome.kind = "error") =>
     ErrorKind(outcome) = SpecifiedKind(outcome.src)

\* the characters of a lowercase hex string
HexLower ==
  {"0", "1", "2", "3", "4", "5", "6", "7", "8", "9", "a", "b", "c", "d", "e", "f"}

\* the pseudonym of each identifier, as one fixed table
Pseudonym(v) ==
  CASE
       v = UserA -> <<"6", "d", "8", "9", "4", "a", "a", "3", "e", "e", "8", "0", "2", "5", "4", "9">>
    [] v = UserB -> <<"8", "5", "8", "5", "8", "a", "4", "c", "3", "0", "f", "2", "3", "4", "7", "2">>
    [] v = EmptyString -> <<"e", "3", "b", "0", "c", "4", "4", "2", "9", "8", "f", "c", "1", "c", "1", "4">>
    [] v = IpA -> <<"f", "5", "0", "4", "7", "3", "4", "4", "1", "2", "2", "f", "0", "d", "e", "e">>

\* C22: the pseudonym a logger writes depends on the identifier alone: in every
\* state, for every logger, attempt, key state and field, a supplied
\* identifier appears as the same 16-character lowercase hex string.
C22_PseudonymDeterministicHex16 ==
  call \in HcsCalls \ {"submitMessage"} =>
    \A j \in DOMAIN submitted : \A f \in IdentityFields(call) :
       LET v == input[f]
           x == submitted[j].msg.body[f]
       IN Truthy(v) =>
            /\ Len(x) = 16
            /\ \A k \in 1..Len(x) : x[k] \in HexLower
            /\ x = Pseudonym(v)
            /\ x = submitted[1].msg.body[f]

\* logSecurityEvent with a userId and an ipAddress submitted its entry on
\* three attempts
C22_Witness ==
  /\ call = "logSecurityEvent" /\ Len(submitted) = 3
  /\ input.userId = UserA /\ input.ipAddress = IpA
  /\ submitted[3].msg.body.userId = submitted[1].msg.body.userId
  /\ hcsKey = "valid" /\ pc = "returned"

(* --- exact comparison of a double with a decimal amount --- *)
\* a without its high zero bits
Trim(a) ==
  LET ones == {k \in 1..Len(a) : a[k] = 1}
  IN IF ones = {} THEN <<>>
     ELSE SubSeq(a, 1, CHOOSE k \in ones : \A j \in ones : j <= k)

\* a <= b, for naturals without high zero bits: the longer one is greater,
\* and of two of equal length the one with the 1 at the highest differing bit
BigLeq(a, b) ==
  IF Len(a) # Len(b) THEN Len(a) < Len(b)
  ELSE \A k \in 1..Len(a) :
         (a[k] > b[k]) => \E j \in (k + 1)..Len(a) : a[j] < b[j]

\* the borrow into bit k of a - b: some lower bit needs one and every bit
\* between hands it on
BorrowIn(a, b, k) ==
  IF \E j \in 1..(k - 1) :
       /\ BitAt(a, j) = 0 /\ BitAt(b, j) = 1
       /\ \A m \in (j + 1)..(k - 1) : BitAt(a, m) <= BitAt(b, m)
    THEN 1 ELSE 0

\* a - b for a >= b
BigSub(a, b) ==
  [k \in 1..Len(a) |-> (BitAt(a, k) - BitAt(b, k) - BorrowIn(a, b, k)) % 2]

BigDist(a, b) ==
  IF BigLeq(a, b) THEN Trim(BigSub(b, a)) ELSE Trim(BigSub(a, b))

\* the amount in units of $0.0001 that the counts cost in exact arithmetic
ExactUnits == 10 * htsCount + hcsCount + 500 * hscsCount

\* |d * 10000 - units|, scaled by 2^(-d.e)   (d.e <= 0 for these amounts)
ScaledError(d, units) ==
  BigDist(BigMul(d.m, 10000), ShiftLeft(NatBits(units), 0 - d.e))

\* d is the JavaScript number written units/10000: the double within half a
\* unit in the last place of that decimal
IsNumber(d, units) ==
  IF units = 0 THEN d.m = <<>>
  ELSE /\ Len(d.m) = MantissaBits
       /\ d.e <= 0
       /\ BigLeq(ShiftLeft(ScaledError(d, units), 1), NatBits(10000))

\* C23 (as claimed): for all non-negative integer counts totalCost equals
\* transfers*0.001 + messages*0.0001 + contractExecutions*0.05, that is
\* (10*transfers + messages + 500*contractExecutions) / 10000, and equals
\* the sum of the three per-class costs returned.
C23_TotalCostIsExactAmount ==
  costs.set =>
    /\ IsNumber(costs.totalCost, ExactUnits)
    /\ costs.totalCost =
         DoubleAdd(DoubleAdd(costs.htsTransfers, costs.hcsMessages),
                   costs.contractExecutions)

\* 35.5 = 71 * 2^(-1)
Is35Point5(d) == d.m # <<>> /\ ShiftLeft(NatBits(71), 0 - d.e - 1) = d.m

\* C23 (amended): totalCost is the double-precision sum, left to right, of the
\* three per-class costs returned, each the double-precision product of its
\* count and unit cost; it differs from the exact amount by at most 2^-50 of
\* that amount, and for counts (10000, 5000, 500) it is exactly 35.5.
C23_TotalCostIsRoundedSum ==
  costs.set =>
    /\ costs.htsTransfers = DoubleMulInt(htsCount, HtsUnitCost)
    /\ costs.hcsMessages = DoubleMulInt(hcsCount, HcsUnitCost)
    /\ costs.contractExecutions = DoubleMulInt(hscsCount, HscsUnitCost)
    /\ costs.totalCost =
         DoubleAdd(DoubleAdd(costs.htsTransfers, costs.hcsMessages),
                   costs.contractExecutions)
    /\ IF ExactUnits = 0 THEN costs.totalCost.m = <<>>
       ELSE /\ costs.totalCost.e <= 0
            /\ BigLeq(ShiftLeft(ScaledError(costs.totalCost, ExactUnits), 50),
                      ShiftLeft(NatBits(ExactUnits), 0 - costs.totalCost.e))
    /\ (htsCount = 10000 /\ hcsCount = 5000 /\ hscsCount = 500)
         => Is35Point5(costs.totalCost)

\* the default counts have been costed, and so have counts whose total is
\* not the nearest double of the exact amount
C23_Witness ==
  /\ costs.set
  /\ \/ htsCount = 10000 /\ hcsCount = 5000 /\ hscsCount = 500
     \/ htsCount = 0 /\ hcsCount = 0 /\ hscsCount = 3

\* the reads that fail: fetch throws, the status is not a success, the body
\* does not parse
FailedReads == {"fetchThrows", "notOk", "jsonThrows"}

\* C24: a read that fails is not propagated to the caller; it is counted as
\* one unconfirmed poll of the maxPolls and is followed by the same wait as
\* a read that found no record, after which the next iteration runs.
C24_FailedReadCountsAsNotFound ==
  [][(monPc = "fetch" /\ monPc' # "fetch" /\ lastRead' \in FailedReads) =>
        /\ monPc' = "sleep"
        /\ monRet' = "pending"
        /\ monState' = "NotFoundYet"
        /\ notFound' = notFound + 1
        /\ poll' = poll /\ reads' = reads /\ reads <= maxPolls
        /\ warned' = warned]_vars

\* nine reads failed and the poller is in its tenth read
C24_Witness ==
  /\ call = "monitorTransaction" /\ lastRead \in FailedReads
  /\ monPc = "fetch" /\ reads = 10 /\ notFound = 9 /\ monRet = "pending"

\* C25 (as claimed): a run that times out has slept exactly maxPolls - 1
\* times, each time pollIntervalMs: no sleep follows the final read.
C25_NoSleepAfterFinalRead ==
  (monPc = "done" /\ monState = "TimedOut") => sleeps = maxPolls - 1

\* what the claim requires of a read for the poller to confirm
HasFinalityTimestamp(resp) ==
  /\ resp.fetched /\ resp.ok /\ resp.parsed
  /\ resp.present
  /\ resp.timestamps # <<>>
  /\ Head(resp.timestamps) \notin {JsonNull, Missing}

\* C26: after a read the poller is in Confirmed exactly when that read
\* resolved with a success status and a body whose transactions array is
\* present, non-empty and has a first element with a non-null consensus
\* timestamp; after every other read it is unconfirmed.
C26_ConfirmedIffFinalityTimestamp ==
  lastRead # "none" =>
    /\ (monState = "Confirmed") <=> HasFinalityTimestamp(ResponseOf(lastRead))
    /\ (monState # "Confirmed") => monState \in {"NotFoundYet", "TimedOut"}

\* a non-success response whose body holds a confirmed record left the poller
\* unconfirmed, and a later read confirmed
C26_Witness ==
  \/ /\ call = "monitorTransaction" /\ lastRead = "notOk" /\ monPc = "sleep"
     /\ monState = "NotFoundYet"
  \/ /\ call = "monitorTransaction" /\ lastRead = "confirmed" /\ reads = 2
     /\ monState = "Confirmed"

\* C27 (as claimed): a missing key for a message that requests encryption
\* reaches the caller after one evaluation of the test, without a second
\* invocation of the operation and without a backoff delay.
C27_MissingKeyRejectedAtOnce ==
  (call \in HcsCalls /\ pc = "thrown" /\ outcome.src = "missingKey") =>
     invocations = 1 /\ delays = <<>>

\* C28: a logger whose topic is not configured throws its 'topic not
\* initialized' error at once: no entry is built, executeWithRetry is not
\* entered and nothing is sent to the network or the mirror node.
C28_MissingTopicFailsAtOnce ==
  (call \in HcsCalls \ {"submitMessage"} /\ ~topicSet) =>
    /\ pc \in {"idle", "thrown"}
    /\ pc = "thrown" => outcome = TopicNotInitialized
    /\ logEntry = NoEntry
    /\ attempt = 0 /\ invocations = 0 /\ delays = <<>> /\ trace = <<>>
    /\ submitted = <<>> /\ ivs = <<>> /\ calls = <<>> /\ netInFlight = 0
    /\ reads = 0

\* logComplianceEvent without its topic has thrown
C28_Witness ==
  /\ call = "logComplianceEvent" /\ ~topicSet /\ hcsKey = "valid"
  /\ pc = "thrown" /\ outcome = TopicNotInitialized

\* C30: when every read settles and every timer fires, monitorTransaction
\* returns to its caller, and it never issues more than 10 reads.
C30_PollerTerminates ==
  /\ [](reads <= maxPolls)
  /\ <>(monPc = "done" /\ monRet = "undefined")

\* ten reads of every kind of unconfirmed outcome ended the poller
C30_Witness ==
  /\ call = "monitorTransaction" /\ monPc = "done" /\ reads = maxPolls
  /\ monState = "TimedOut"

\* q is an initial part of r
IsPrefix(q, r) == Len(q) <= Len(r) /\ q = SubSeq(r, 1, Len(q))

\* C29: with two uploads interleaved in any order, every append in flight
\* names the file its own upload's current create call returned and carries
\* that upload's next chunk; every file holds chunks of its creator only, in
\* order; and the file an upload returns holds exactly that upload's payload.
C29_ConcurrentUploadsIsolated ==
  /\ \A u \in Uploads :
       /\ ups[u].pc = "appendExec" =>
            /\ ups[u].target = ups[u].fileId
            /\ ups[u].target \in DOMAIN store
            /\ store[ups[u].target].creator = u
            /\ store[ups[u].target].attempt = ups[u].attempt
            /\ ups[u].chunks[ups[u].i + 1][1] = u
       /\ ups[u].pc = "returned" =>
            /\ ups[u].result \in DOMAIN store
            /\ store[ups[u].result].creator = u
            /\ store[ups[u].result].contents = UploadChunks(u)
  /\ \A id \in DOMAIN store :
       /\ \A k \in DOMAIN store[id].contents :
            store[id].contents[k][1] = store[id].creator
       /\ IsPrefix(store[id].contents, UploadChunks(store[id].creator))
  /\ (\A u \in Uploads : ups[u].pc = "returned") => ups[1].result # ups[2].result

\* both uploads returned; their files were created alternately, upload 2's
\* first, and upload 1 needed a second attempt
C29_Witness ==
  /\ call = "twoUploads"
  /\ \A u \in Uploads : ups[u].pc = "returned"
  /\ Len(store) = 3
  /\ store[1].creator = 2 /\ store[2].creator = 1 /\ store[3].creator = 1
  /\ ups[1].result = 3 /\ ups[2].result = 1
  /\ Len(store[2].contents) = 1

\* the operation of this call has reached its `await monitorTransaction(...)`
PollingStarted == call # "monitorTransaction" /\ monPc # "idle"

\* C31: once an attempt's submit call and receipt have succeeded and the
\* confirmation polling has begun, the call issues no further submit (or
\* create, append, contract) call, however the polling ends.
C31_PollingNeverResubmits ==
  [][PollingStarted => (submitted' = submitted /\ calls' = calls)]_vars

\* submitMessage has returned after a submission whose polling timed out with
\* failing reads, and that submission is the only successful one
C31_Witness ==
  /\ call \in HcsCalls
  /\ pc = "returned"
  /\ monState = "TimedOut"
  /\ lastRead = "fetchThrows"
  /\ Len(submitted) >= 2
  /\ submitted[Len(submitted)].status = "ok"
  /\ \A k \in 1..(Len(submitted) - 1) : submitted[k].status = "failed"

\* C32: one call of a tontine function issues the contract transaction at
\* most 3 times per outer attempt, 3 * 3 = 9 times in all; and every outer
\* attempt of createTontineCircle, also one that follows a failed
\* getLatestTontineId query after a createTontine transaction that succeeded,
\* begins by executing the createTontine transaction again.
C32_NestedRetryReexecutes ==
  /\ [](call \in TontineCalls =>
          /\ txIssued <= DefaultMaxRetries * DefaultMaxRetries
          /\ txIssued <= DefaultMaxRetries * oAttempt
          /\ txApplied <= txIssued)
  /\ [][(call = "createTontineCircle" /\ oPc = "loop" /\ oPc' = "op")
          => phase' = "executeContractFunction"]_vars
  /\ [][(call = "createTontineCircle" /\ phase = "executeContractFunction"
          /\ bpc = "entry" /\ bpc' # "entry")
          => txIssued' = txIssued + 1]_vars

\* createTontineCircle has returned after nine executions of createTontine,
\* three of them successful: the query failed in the first two outer attempts
C32_Witness ==
  /\ call = "createTontineCircle"
  /\ oPc = "returned"
  /\ oAttempt = DefaultMaxRetries
  /\ txIssued = 9
  /\ txApplied = 3

\* C33: whenever mintTokenSupply has returned, the amount minted on the
\* network by the call is the amountMinted it reports: exactly one mint
\* transaction was applied.
C33_MintedEqualsReported ==
  (call = "mintTokenSupply" /\ oPc = "returned")
    => /\ txApplied = 1
       /\ txApplied * amount = oOutcome.amountMinted

\* C34: in createFile a file id is in the stored metadata only if the create
\* call and every append call of the attempt that created it were issued and
\* resolved without error; no file of an attempt with a failed call is ever
\* stored; and confirmation polling runs only once the metadata of the
\* attempt's file has been stored.
C34_MetadataAfterAllChunks ==
  call = "createFile" =>
     /\ \A f \in metadata : \E a \in 1..maxRetries :
          LET s == AttemptCalls(a) IN
            /\ Len(s) = NumChunks(contentsLen, chunkSize)
            /\ \A j \in 1..Len(s) : s[j].status = "ok" /\ s[j].file = f
     /\ \A j \in DOMAIN calls : \A k \in DOMAIN calls :
          (calls[j].status = "failed" /\ calls[k].attempt = calls[j].attempt)
             => calls[k].file \notin metadata
     /\ (pc = "op" /\ bpc \in {"stored", "monitor"}) => fileId \in metadata
     /\ monPc # "idle" => metadata # {}

\* a three-chunk upload whose first attempt failed at an append is being
\* polled in its second attempt: only the second file is in the metadata
C34_Witness ==
  /\ call = "createFile" /\ pc = "op" /\ bpc = "monitor" /\ monPc = "fetch"
  /\ contentsLen = 12289
  /\ attempt = 2
  /\ Len(calls) = 5
  /\ calls[2].op = "append" /\ calls[2].status = "failed"
  /\ metadata = {fileId}
  /\ calls[1].file \notin metadata

\* the number of calls that carry bytecode in one attempt: the create, and
\* one append per further 4096-byte segment
NumSegments == IF contentsLen <= bytecodeChunk THEN 1
               ELSE NumChunks(contentsLen, bytecodeChunk)

\* C35: in every attempt of deployLargeContract the contract-create call
\* comes after the file create carrying bytes [0, 4096) and the appends of
\* all following 4096-byte segments, issued in ascending offset order and
\* resolved; a bytecode of at most 4096 bytes issues no append; the segments
\* issued before the contract-create cover the bytecode exactly once.
C35_ContractAfterAllSegments ==
  call = "deployLargeContract" =>
     /\ \A a \in 1..maxRetries :
          LET s == AttemptCalls(a) IN
            \A j \in 1..Len(s) :
              /\ s[j].op = "contractCreate" <=> j = NumSegments + 1
              /\ j = 1 => s[j].op = "create" /\ s[j].range[1] = 0
              /\ (j > 1 /\ j <= NumSegments) =>
                   /\ s[j].op = "append"
                   /\ s[j].range[1] = (j - 1) * bytecodeChunk
                   /\ s[j].range[1] = s[j - 1].range[2]
              /\ j <= NumSegments =>
                   s[j].range[2] = Min(s[j].range[1] + bytecodeChunk, contentsLen)
              /\ j = NumSegments + 1 =>
                   /\ s[NumSegments].range[2] = contentsLen
                   /\ \A k \in 1..NumSegments : s[k].status = "ok"
     /\ contentsLen <= bytecodeChunk => Appends = {}

\* a three-segment bytecode deployed in the second attempt, after an append
\* of the first attempt failed
C35_Witness ==
  /\ call = "deployLargeContract" /\ pc = "returned"
  /\ contentsLen = 8193
  /\ Len(calls) = 6
  /\ calls[2].op = "append" /\ calls[2].status = "failed"
  /\ calls[6].op = "contractCreate" /\ calls[6].status = "ok"
  /\ calls[5].range = <<8192, 8193>>

\* C36: for maxRetries <= 0 executeWithRetry never invokes the operation,
\* starts no delay and can only end by throwing the generic 'Max retries
\* exceeded' error; for maxRetries >= 1 that error is never the outcome.
C36_NonPositiveMaxRetries ==
  pc # "idle" =>
     /\ (call = "executeWithRetry" /\ maxRetries <= 0) =>
          /\ invocations = 0
          /\ opsInFlight = 0
          /\ delays = <<>>
          /\ pc \in {"loop", "thrown"}
          /\ pc = "thrown" => outcome = MaxRetriesExceeded
     /\ maxRetries >= 1 => outcome # MaxRetriesExceeded

\* executeWithRetry(operation, -1) has thrown
C36_Witness ==
  /\ call = "executeWithRetry"
  /\ maxRetries = 0 - 1
  /\ pc = "thrown"
  /\ outcome = MaxRetriesExceeded
  /\ trace = <<>>

====
